---- MODULE Spec2Model ----
(***************************************************************************)
(* Solace Protocol: the gossip dissemination layer (acp/src/gossip.rs)     *)
(* and the Proof-of-Reputation consensus engine                            *)
(* (framework/src/consensus.rs).                                           *)
(*                                                                         *)
(* Groups of state, each with its own specifications:                      *)
(*   SpecMsg     one GossipMessage and its only mutator, forward()         *)
(*   SpecEngine  one ConsensusEngine (a &mut self object: sequential),     *)
(*               validators and the chain                                  *)
(*   SpecQuorum  the same engine, votes counted against epochs of n        *)
(*   SpecRegistry  the same engine, the validator registry                 *)
(*   SpecVotes   the same engine, votes and finalization                   *)
(*   SpecWeight  one Validator and calculate_weight                        *)
(*   SpecSlash   one u64 stake and the slash `(stake as f64 * 0.9) as u64` *)
(*   Spec        one GossipProtocol node with concurrent callers           *)
(*   SpecSeq     the same node with one caller at a time                   *)
(*   SpecFanout  the same node, default fanout and up to six peers         *)
(*   SpecEpoch   the engine across an epoch rotation, one seat per epoch   *)
(*   SpecActive  the engine, stakes set and slashed around the minimum     *)
(*   SpecReputation  the engine, reputations in and out of range           *)
(*   SpecPeers   the node's peer table under concurrent use                *)
(*   SpecForward the node forwarding what it receives, fanout 1            *)
(*   SpecCache   the node's own broadcasts and their echoes                *)
(*   SpecLocks   the node with every kind of caller, with fairness         *)
(***************************************************************************)
EXTENDS Integers, Sequences, FiniteSets, TLC

VARIABLES
    gm0,          \* SpecMsg: the message as GossipMessage::new built it
    gm,           \* SpecMsg: the message now
    fwd_results,  \* SpecMsg: the values forward() returned, in call order
    engine,       \* ConsensusEngine: its fields
    result,       \* ConsensusEngine: what the last call returned
    node,         \* GossipProtocol: peers, message_cache, stats, outbound queue, config
    tasks,        \* GossipProtocol: where each caller is in its call
    consumer,     \* GossipProtocol: the outbound queue consumer, idle or sending
    maintenance,  \* GossipProtocol: the maintenance task and its sweep time
    now,          \* the clock (Instant::now), seconds since the node was built
    handled,      \* the messages given to a handler since the cache was last purged
    next_uuid,    \* the next fresh message id (Uuid::new_v4)
    validator,    \* SpecWeight: the Validator calculate_weight is called on
    returned_weight, \* SpecWeight: what calculate_weight returned last
    wide_stake,   \* SpecSlash: a u64 stake, as its bits, lowest first
    wide_slashes  \* SpecSlash: how often wide_stake was slashed

msgVars == <<gm0, gm, fwd_results>>

engineVars == <<engine, result>>

nodeVars == <<node, tasks, consumer, maintenance, now, handled, next_uuid>>

calcVars == <<validator, returned_weight, wide_stake, wide_slashes>>

vars == <<msgVars, engineVars, nodeVars, calcVars>>

--------------------------------------------------------------------------
(* Helpers *)

Min(a, b) == IF a <= b THEN a ELSE b

SatSub(a, b) == IF a >= b THEN a - b ELSE 0

SeqToSet(s) == {s[i] : i \in 1..Len(s)}

--------------------------------------------------------------------------
(* GossipMessage *)

\* hop ceiling of is_expired
MaxHopLimit == 10

\* this node
NodeId == "self"

\* message kinds: one with a registered handler, one without
MessageTypes == {"HeartBeat", "Custom"}

\* GossipMessage::new: hop_count 0, empty routing path
NewMessage(id, message_type, sender_id, ttl) ==
    [id |-> id, message_type |-> message_type, sender_id |-> sender_id,
     ttl |-> ttl, hop_count |-> 0, routing_path |-> <<>>]

IsExpired(m) == m.ttl = 0 \/ m.hop_count > MaxHopLimit

\* the mutation of forward(): ttl - 1 (saturating), hop_count + 1, push node
ForwardMutate(m, node_id) ==
    [m EXCEPT !.ttl = SatSub(m.ttl, 1),
              !.hop_count = m.hop_count + 1,
              !.routing_path = Append(m.routing_path, node_id)]

\* forward() reporting true whenever it mutated the message
ForwardReportsMutation(m, node_id) ==
    IF IsExpired(m)
    THEN [msg |-> m, ok |-> FALSE]
    ELSE [msg |-> ForwardMutate(m, node_id), ok |-> TRUE]

\* forward(): the message after the call and the value returned
Forward(m, node_id) ==
    IF IsExpired(m)
    THEN [msg |-> m, ok |-> FALSE]
    ELSE LET m2 == ForwardMutate(m, node_id)
         IN  [msg |-> m2, ok |-> ~IsExpired(m2)]

--------------------------------------------------------------------------
(* SpecMsg: a message built by GossipMessage::new, then only forward() *)

MaxTTL == 12

MaxForwardCalls == 13

ForwardNodes == {"n1", "n2"}

MsgStart(ttls) ==
    /\ \E t \in ttls : gm0 = NewMessage("m1", "HeartBeat", "sender", t)
    /\ gm = gm0
    /\ fwd_results = <<>>

MsgForward(node_id) ==
    /\ Len(fwd_results) < MaxForwardCalls
    /\ gm' = Forward(gm, node_id).msg
    /\ fwd_results' = Append(fwd_results, Forward(gm, node_id).ok)
    /\ UNCHANGED gm0
    /\ UNCHANGED <<engineVars, nodeVars, calcVars>>


--------------------------------------------------------------------------
(* ConsensusEngine: configuration *)

\* ConsensusConfig::default
DefaultValidatorsPerEpoch == 21

DefaultMinValidatorStake == 1000

\* reputation_weight 0.4 and stake_weight 0.6, in tenths
DefaultReputationWeight == 4

DefaultStakeWeight == 6

DefaultMaxConsecutiveBlocks == 3

DefaultEpochDuration == 1000

DefaultConfig ==
    [validators_per_epoch |-> DefaultValidatorsPerEpoch,
     min_validator_stake |-> DefaultMinValidatorStake,
     reputation_weight |-> DefaultReputationWeight,
     stake_weight |-> DefaultStakeWeight,
     max_consecutive_blocks |-> DefaultMaxConsecutiveBlocks,
     epoch_duration |-> DefaultEpochDuration]

\* a configuration with epochs of few blocks and few validators per epoch,
\* so that rotations and the quota are reached within few calls
ShortEpochDuration == 2

FewValidatorsPerEpoch == 2

ShortEpochConfig ==
    [DefaultConfig EXCEPT !.epoch_duration = ShortEpochDuration,
                          !.validators_per_epoch = FewValidatorsPerEpoch]

\* block_history keeps the last 1000 headers
HistoryRetention == 1000

VoteTypes == {"Approve", "Reject", "Abstain"}

\* SystemTime::now() as validate_block reads it; a header's timestamp is
\* either not after it (0) or in the future (1)
SystemNow == 0

Timestamps == {0, 1}

--------------------------------------------------------------------------
(* Maps (HashMap) as functions, Option as a sequence of length 0 or 1 *)

MapPut(f, k, v) == [x \in (DOMAIN f) \cup {k} |-> IF x = k THEN v ELSE f[x]]

MapRemove(f, k) == [x \in (DOMAIN f) \ {k} |-> f[x]]

EmptyMap == [x \in {} |-> 0]

None == <<>>

Some(x) == <<x>>

--------------------------------------------------------------------------
(* GossipProtocol: configuration and data *)

\* GossipConfig::default
DefaultFanout == 3

DefaultMessageTtl == 10

DefaultMaxMessageCache == 1000

\* duplicate_window, in seconds
DuplicateWindow == 60

\* the liveness window of the maintenance sweep, in seconds
LivenessWindow == 300

\* cleanup_cache removes this many entries more than the excess
CleanupExtra == 100

GossipConfig(fanout, message_ttl, max_message_cache) ==
    [fanout |-> fanout, message_ttl |-> message_ttl,
     max_message_cache |-> max_message_cache]

DefaultGossipConfig ==
    GossipConfig(DefaultFanout, DefaultMessageTtl, DefaultMaxMessageCache)

\* the message kinds a handler was registered for before the node is shared
RegisteredHandlers == {"Custom"}

\* GossipStats::default
DefaultStats ==
    [messages_sent |-> 0, messages_received |-> 0, messages_forwarded |-> 0,
     duplicates_filtered |-> 0, expired_messages |-> 0, bytes_sent |-> 0,
     bytes_received |-> 0, active_peers |-> 0]

\* GossipProtocol::new: no peer, empty cache, zero statistics, empty queue
NewGossipProtocol(config) ==
    [config |-> config, peers |-> EmptyMap, message_cache |-> EmptyMap,
     stats |-> DefaultStats, outbound |-> <<>>]

\* the GossipPeer add_peer builds at time t
NewPeer(t) == [last_seen |-> t, message_count |-> 0, is_active |-> TRUE]

\* the CacheEntry cache_message builds at time t
NewCacheEntry(m, t) == [message |-> m, received_at |-> t, forwarded_to |-> {}]

\* serde_json::to_vec(&message).len(): positive, longer with every path entry
MessageBytes(m) == 1 + Len(m.routing_path)

\* get_peer_count: the peers flagged active
GetPeerCount(n) == Cardinality({p \in DOMAIN n.peers : n.peers[p].is_active})

\* the sequences of k pairwise distinct members of S (choose_multiple: any
\* k of them, in any order)
ChooseMultiple(S, k) ==
    {s \in [1..k -> S] : \A i, j \in 1..k : i < j => s[i] # s[j]}

\* select_gossip_targets after a mutation: the is_active filter dropped
SelectGossipTargetsAnyPeer(n) ==
    ChooseMultiple(DOMAIN n.peers, Min(n.config.fanout, Cardinality(DOMAIN n.peers)))

\* select_gossip_targets: min(fanout, active) of the active peers
SelectGossipTargets(n) ==
    LET active_peers == {p \in DOMAIN n.peers : n.peers[p].is_active}
        target_count == Min(n.config.fanout, Cardinality(active_peers))
    IN  ChooseMultiple(active_peers, target_count)

\* select_forward_targets without `peer.id != message.sender_id`
SelectForwardTargetsWithSender(n, m) ==
    LET excluded == SeqToSet(m.routing_path)
        available_peers == {p \in DOMAIN n.peers :
                               n.peers[p].is_active /\ p \notin excluded}
        target_count == Min(n.config.fanout, Cardinality(available_peers))
    IN  ChooseMultiple(available_peers, target_count)

\* select_forward_targets: active peers other than the sender and the
\* nodes of the routing path
SelectForwardTargets(n, m) ==
    LET excluded == SeqToSet(m.routing_path)
        available_peers == {p \in DOMAIN n.peers :
                               /\ n.peers[p].is_active
                               /\ p # m.sender_id
                               /\ p \notin excluded}
        target_count == Min(n.config.fanout, Cardinality(available_peers))
    IN  ChooseMultiple(available_peers, target_count)

\* outbound_tx.send for every target, in the order selected
Enqueue(outbound, targets, m) ==
    outbound \o [i \in 1..Len(targets) |-> <<targets[i], m>>]

\* cache.retain(|_, entry| entry.received_at > cutoff)
RetainNewerThan(cache, cutoff) ==
    [id \in {i \in DOMAIN cache : cache[i].received_at > cutoff} |-> cache[id]]

\* cleanup_cache: drop the entries of the duplicate window's past, then, if
\* the cache is still over capacity, the len - max + 100 oldest ones (all of
\* them when there are fewer); entries of equal age go in HashMap order, so
\* every choice among them is an outcome
CleanupCache(cache, config, t) ==
    LET kept == RetainNewerThan(cache, t - DuplicateWindow)
        len == Cardinality(DOMAIN kept)
        to_remove == Min(len - config.max_message_cache + CleanupExtra, len)
    IN  IF len > config.max_message_cache
        THEN {[id \in DOMAIN kept \ R |-> kept[id]] :
                 R \in {Q \in SUBSET DOMAIN kept :
                          /\ Cardinality(Q) = to_remove
                          /\ \A r \in Q : \A k \in DOMAIN kept \ Q :
                                kept[r].received_at <= kept[k].received_at}}
        ELSE {kept}

\* cache_message at time t: insert, and clean up when over capacity
CacheMessage(n, m, t) ==
    LET inserted == MapPut(n.message_cache, m.id, NewCacheEntry(m, t))
    IN  IF Cardinality(DOMAIN inserted) > n.config.max_message_cache
        THEN CleanupCache(inserted, n.config, t)
        ELSE {inserted}

\* is_duplicate
IsDuplicate(n, m) == m.id \in DOMAIN n.message_cache

\* should_forward without the check of the sender against the node's id
ShouldForwardOwn(n, m) ==
    IF IsExpired(m) THEN FALSE
    ELSE IF m.id \in DOMAIN n.message_cache
         THEN Cardinality(n.message_cache[m.id].forwarded_to) < n.config.fanout
         ELSE TRUE

\* should_forward
ShouldForward(n, m) ==
    IF m.sender_id = NodeId THEN FALSE
    ELSE IF IsExpired(m) THEN FALSE
    ELSE IF m.id \in DOMAIN n.message_cache
         THEN Cardinality(n.message_cache[m.id].forwarded_to) < n.config.fanout
         ELSE TRUE

\* update_peer_info written with an upsert: an unknown sender is registered
UpdatePeerInfoInserting(peers, peer_id, t) ==
    IF peer_id \in DOMAIN peers
    THEN [peers EXCEPT ![peer_id] =
             [last_seen |-> t, message_count |-> @.message_count + 1,
              is_active |-> TRUE]]
    ELSE MapPut(peers, peer_id, [last_seen |-> t, message_count |-> 1,
                                 is_active |-> TRUE])

\* update_peer_info at time t: only a peer already registered is touched
UpdatePeerInfo(peers, peer_id, t) ==
    IF peer_id \in DOMAIN peers
    THEN [peers EXCEPT ![peer_id] =
             [last_seen |-> t, message_count |-> @.message_count + 1,
              is_active |-> TRUE]]
    ELSE peers

\* forward_message, the cache update: the targets join the forward-set of
\* the message's entry when there is one
RecordForwarded(cache, m, targets) ==
    IF m.id \in DOMAIN cache
    THEN [cache EXCEPT ![m.id].forwarded_to = @ \cup SeqToSet(targets)]
    ELSE cache

\* the sweep written as a retain on the age: the old peers are dropped
SweepPeersDroppingOld(peers, t) ==
    [p \in {q \in DOMAIN peers : t - peers[q].last_seen < LivenessWindow} |->
        [peers[p] EXCEPT !.is_active = TRUE]]

\* the maintenance sweep over the peers at time t: none is removed
SweepPeers(peers, t) ==
    [p \in DOMAIN peers |->
        [peers[p] EXCEPT !.is_active = (t - peers[p].last_seen < LivenessWindow)]]

--------------------------------------------------------------------------
(* GossipProtocol: the callers, the queue consumer and the maintenance task.
   Every step is one critical section (or one lock-free stretch) of the
   code; a task between two steps is suspended at an await. *)

NoMessage == NewMessage(0, "HeartBeat", "", 0)

IdleTask == [pc |-> "idle", message |-> NoMessage, targets |-> <<>>, ret |-> "none"]

\* write guards held across an await: add_peer and remove_peer keep peers
\* while waiting for stats, forward_message keeps the cache while waiting
\* for stats, the consumer keeps stats during its send delay
PeersWriteLocked ==
    \E t \in DOMAIN tasks : tasks[t].pc \in {"add_peer_stats", "remove_peer_stats"}

CacheWriteLocked == \E t \in DOMAIN tasks : tasks[t].pc = "forward_stats"

StatsWriteLocked == consumer = "sending"

NodeStart(config, task_ids) ==
    /\ node = NewGossipProtocol(config)
    /\ tasks = [t \in task_ids |-> IdleTask]
    /\ consumer = "idle"
    /\ maintenance = [pc |-> "idle", now |-> 0]
    /\ now = 0
    /\ handled = <<>>
    /\ next_uuid = 1

At(t, pc) == tasks[t].pc = pc

Goto(t, pc) == tasks' = [tasks EXCEPT ![t].pc = pc]

Return(t, ret) == tasks' = [tasks EXCEPT ![t] = [IdleTask EXCEPT !.ret = ret]]

Background == <<consumer, maintenance, now, next_uuid>>

Others == <<msgVars, engineVars, calcVars>>

\* add_peer: insert under the peers write guard ...
AddPeer(t, peer_id) ==
    /\ At(t, "idle") /\ ~PeersWriteLocked
    /\ node' = [node EXCEPT !.peers = MapPut(@, peer_id, NewPeer(now))]
    /\ Goto(t, "add_peer_stats")
    /\ UNCHANGED <<handled, Background, Others>>

\* ... then stats.active_peers = peers.len(), both guards dropped on return
AddPeerStats(t) ==
    /\ At(t, "add_peer_stats") /\ ~StatsWriteLocked
    /\ node' = [node EXCEPT !.stats.active_peers = Cardinality(DOMAIN node.peers)]
    /\ Return(t, "ok")
    /\ UNCHANGED <<handled, Background, Others>>

\* remove_peer: remove under the peers write guard; only a peer that was
\* there leads to the stats update
RemovePeer(t, peer_id) ==
    /\ At(t, "idle") /\ ~PeersWriteLocked
    /\ node' = [node EXCEPT !.peers = MapRemove(@, peer_id)]
    /\ IF peer_id \in DOMAIN node.peers
       THEN Goto(t, "remove_peer_stats")
       ELSE Return(t, "ok")
    /\ UNCHANGED <<handled, Background, Others>>

RemovePeerStats(t) ==
    /\ At(t, "remove_peer_stats") /\ ~StatsWriteLocked
    /\ node' = [node EXCEPT !.stats.active_peers = Cardinality(DOMAIN node.peers)]
    /\ Return(t, "ok")
    /\ UNCHANGED <<handled, Background, Others>>

\* cache_message as the first step of gossip_message. A cleanup of the
\* cache starts a new history of handled messages.
StartGossip(t, m, max_sent) ==
    /\ node.stats.messages_sent < max_sent
    /\ At(t, "idle") /\ ~CacheWriteLocked
    /\ \E cache \in CacheMessage(node, m, now) :
          node' = [node EXCEPT !.message_cache = cache]
    /\ handled' = IF Cardinality(DOMAIN node.message_cache \cup {m.id})
                        > node.config.max_message_cache
                  THEN <<>> ELSE handled
    /\ tasks' = [tasks EXCEPT ![t] = [IdleTask EXCEPT !.pc = "gossip_select",
                                                      !.message = m]]
    /\ UNCHANGED <<consumer, maintenance, now, Others>>

\* gossip_message, first step
GossipMessage(t, m, max_sent) == StartGossip(t, m, max_sent) /\ UNCHANGED next_uuid

\* broadcast: a new message of this node with the configured TTL and a
\* fresh id, handed to gossip_message
Broadcast(t, message_type, max_sent) ==
    /\ StartGossip(t, NewMessage(next_uuid, message_type, NodeId,
                                 node.config.message_ttl), max_sent)
    /\ next_uuid' = next_uuid + 1

\* gossip_message, second step: select the targets and queue the message
GossipSelect(t) ==
    /\ At(t, "gossip_select") /\ ~PeersWriteLocked
    /\ \E target_peers \in SelectGossipTargets(node) :
          /\ node' = [node EXCEPT !.outbound =
                         Enqueue(@, target_peers, tasks[t].message)]
          /\ tasks' = [tasks EXCEPT ![t].pc = "gossip_stats",
                                    ![t].targets = target_peers]
    /\ UNCHANGED <<handled, Background, Others>>

\* gossip_message, last step: messages_sent += 1
GossipStats(t) ==
    /\ At(t, "gossip_stats") /\ ~StatsWriteLocked
    /\ node' = [node EXCEPT !.stats.messages_sent = @ + 1]
    /\ Return(t, "ok")
    /\ UNCHANGED <<handled, Background, Others>>

\* handle_incoming_message, first step: messages_received and
\* bytes_received
HandleIncomingMessage(t, m, max_received) ==
    /\ node.stats.messages_received < max_received
    /\ At(t, "idle") /\ ~StatsWriteLocked
    /\ node' = [node EXCEPT !.stats.messages_received = @ + 1,
                            !.stats.bytes_received = @ + MessageBytes(m)]
    /\ tasks' = [tasks EXCEPT ![t] = [IdleTask EXCEPT !.pc = "is_duplicate",
                                                      !.message = m]]
    /\ UNCHANGED <<handled, Background, Others>>

\* the duplicate check against the cache, then the expiry check
CheckDuplicate(t) ==
    /\ At(t, "is_duplicate") /\ ~CacheWriteLocked
    /\ Goto(t, IF IsDuplicate(node, tasks[t].message) THEN "duplicate_stats"
               ELSE IF IsExpired(tasks[t].message) THEN "expired_stats"
               ELSE "process_message")
    /\ UNCHANGED <<node, handled, Background, Others>>

DuplicateStats(t) ==
    /\ At(t, "duplicate_stats") /\ ~StatsWriteLocked
    /\ node' = [node EXCEPT !.stats.duplicates_filtered = @ + 1]
    /\ Return(t, "ok")
    /\ UNCHANGED <<handled, Background, Others>>

\* the expired branch with the sender's liveness refreshed before the return
ExpiredStatsSeenSender(t) ==
    /\ At(t, "expired_stats") /\ ~StatsWriteLocked
    /\ node' = [node EXCEPT !.stats.expired_messages = @ + 1,
                            !.peers = UpdatePeerInfo(@, tasks[t].message.sender_id, now)]
    /\ Return(t, "ok")
    /\ UNCHANGED <<handled, Background, Others>>

\* the expired branch: expired_messages += 1 and return
ExpiredStats(t) ==
    /\ At(t, "expired_stats") /\ ~StatsWriteLocked
    /\ node' = [node EXCEPT !.stats.expired_messages = @ + 1]
    /\ Return(t, "ok")
    /\ UNCHANGED <<handled, Background, Others>>

\* process_message: the handler registered for the kind is called; its
\* error ends the call
ProcessMessage(t) ==
    /\ At(t, "process_message")
    /\ IF tasks[t].message.message_type \in RegisteredHandlers
       THEN \E handler_ok \in BOOLEAN :
               /\ handled' = Append(handled, [message |-> tasks[t].message,
                                              at |-> now, ok |-> handler_ok])
               /\ IF handler_ok THEN Goto(t, "update_peer_info")
                  ELSE Return(t, "err")
       ELSE /\ handled' = handled
            /\ Goto(t, "update_peer_info")
    /\ UNCHANGED <<node, Background, Others>>

\* process_message, update_peer_info of the sender
UpdateSender(t) ==
    /\ At(t, "update_peer_info") /\ ~PeersWriteLocked
    /\ node' = [node EXCEPT !.peers =
                   UpdatePeerInfo(@, tasks[t].message.sender_id, now)]
    /\ Goto(t, "should_forward")
    /\ UNCHANGED <<handled, Background, Others>>

\* should_forward; an own message is refused before the cache is read
CheckShouldForward(t) ==
    /\ At(t, "should_forward")
    /\ tasks[t].message.sender_id # NodeId => ~CacheWriteLocked
    /\ IF ShouldForward(node, tasks[t].message)
       THEN Goto(t, "forward_message")
       ELSE Return(t, "ok")
    /\ UNCHANGED <<node, handled, Background, Others>>

\* forward_message: forward() on the message; when it says true, select the
\* targets and queue the message
ForwardMessage(t) ==
    /\ At(t, "forward_message")
    /\ LET f == Forward(tasks[t].message, NodeId)
       IN  IF ~f.ok
           THEN Return(t, "ok") /\ UNCHANGED node
           ELSE /\ ~PeersWriteLocked
                /\ \E target_peers \in SelectForwardTargets(node, f.msg) :
                      /\ node' = [node EXCEPT !.outbound =
                                     Enqueue(@, target_peers, f.msg)]
                      /\ tasks' = [tasks EXCEPT ![t].pc = "forward_cache",
                                                ![t].message = f.msg,
                                                ![t].targets = target_peers]
    /\ UNCHANGED <<handled, Background, Others>>

\* forward_message: the forward-set of the cache entry, under the cache
\* write guard, which is kept
ForwardCache(t) ==
    /\ At(t, "forward_cache") /\ ~CacheWriteLocked
    /\ node' = [node EXCEPT !.message_cache =
                   RecordForwarded(@, tasks[t].message, tasks[t].targets)]
    /\ Goto(t, "forward_stats")
    /\ UNCHANGED <<handled, Background, Others>>

\* forward_message: messages_forwarded += 1, both guards dropped on return
ForwardStats(t) ==
    /\ At(t, "forward_stats") /\ ~StatsWriteLocked
    /\ node' = [node EXCEPT !.stats.messages_forwarded = @ + 1]
    /\ Return(t, "ok")
    /\ UNCHANGED <<handled, Background, Others>>

\* the queue consumer: take the next pair, add its size to bytes_sent under
\* the stats write guard and keep the guard for the send delay
ConsumerSend ==
    /\ consumer = "idle" /\ node.outbound # <<>>
    /\ node' = [node EXCEPT !.outbound = Tail(@),
                            !.stats.bytes_sent = @ + MessageBytes(node.outbound[1][2])]
    /\ consumer' = "sending"
    /\ UNCHANGED <<tasks, handled, maintenance, now, next_uuid, Others>>

\* the consumer reading the peer table before it drops the stats guard
ConsumerDoneReadingPeers ==
    /\ consumer = "sending" /\ ~PeersWriteLocked
    /\ consumer' = "idle"
    /\ UNCHANGED <<node, tasks, handled, maintenance, now, next_uuid, Others>>

\* the send delay is over: the guard is dropped
ConsumerDone ==
    /\ consumer = "sending"
    /\ consumer' = "idle"
    /\ UNCHANGED <<node, tasks, handled, maintenance, now, next_uuid, Others>>

\* maintenance: mark the peers by their age at the sweep's time ...
MaintainPeers ==
    /\ maintenance.pc = "idle" /\ ~PeersWriteLocked
    /\ node' = [node EXCEPT !.peers = SweepPeers(@, now)]
    /\ maintenance' = [pc |-> "cache", now |-> now]
    /\ UNCHANGED <<tasks, handled, consumer, now, next_uuid, Others>>

\* ... then purge the cache entries of the duplicate window's past (and
\* with them the history of what was handled that long ago)
MaintainCache ==
    /\ maintenance.pc = "cache" /\ ~CacheWriteLocked
    /\ node' = [node EXCEPT !.message_cache =
                   RetainNewerThan(@, maintenance.now - DuplicateWindow)]
    /\ handled' = SelectSeq(handled, LAMBDA h : h.at > maintenance.now - DuplicateWindow)
    /\ maintenance' = [pc |-> "idle", now |-> 0]
    /\ UNCHANGED <<tasks, consumer, now, next_uuid, Others>>

\* the clock
Tick(d, max_time) ==
    /\ now + d <= max_time
    /\ now' = now + d
    /\ UNCHANGED <<node, tasks, handled, consumer, maintenance, next_uuid, Others>>

--------------------------------------------------------------------------
(* Validator and its selection weight; f64 as fixed point *)

\* Validator::new
NewValidator(agent_id, stake, reputation) ==
    [agent_id |-> agent_id, stake |-> stake, reputation |-> reputation,
     blocks_produced |-> 0, consecutive_blocks |-> 0, last_block_time |-> 0,
     is_active |-> TRUE, slashing_events |-> 0]

RECURSIVE Log2Floor(_)
Log2Floor(x) == IF x < 2 THEN 0 ELSE 1 + Log2Floor(x \div 2)

RECURSIVE Pow(_, _)
Pow(b, n) == IF n = 0 THEN 1 ELSE b * Pow(b, n - 1)

\* 1000 * ln(stake / 1_000_000), stake >= 1: ln(stake) = k ln 2 + 2 atanh(z),
\* z = (m - 1) / (m + 1), m = stake / 2^k in [1, 2), the series cut after z^7
LnMilli(stake) ==
    LET k == Log2Floor(stake)
        sh == IF k > 16 THEN Pow(2, k - 16) ELSE 1
        num == (stake - Pow(2, k)) \div sh
        den == (stake + Pow(2, k)) \div sh
        z == (num * 10000) \div den
        z2 == (z * z) \div 10000
        z3 == (z * z2) \div 10000
        z5 == (z3 * z2) \div 10000
        z7 == (z5 * z2) \div 10000
        atanh == z + (z3 \div 3) + (z5 \div 5) + (z7 \div 7)
        lnStake == (k * 693147) \div 100 + 2 * atanh
    IN  (lnStake - 138155) \div 10

RECURSIVE SlashingPenalty(_, _)
\* w * 0.9^n
SlashingPenalty(w, n) == IF n = 0 THEN w ELSE SlashingPenalty((w * 9) \div 10, n - 1)

\* calculate_weight without the minimum-stake check
CalculateWeightOfActive(v, config) ==
    IF ~v.is_active
    THEN 0
    ELSE LET reputation_component == v.reputation * config.reputation_weight
             stake_component == LnMilli(v.stake) * config.stake_weight
             consecutive_penalty ==
                 IF v.consecutive_blocks >= config.max_consecutive_blocks THEN 5 ELSE 10
         IN  SlashingPenalty((reputation_component + stake_component) * consecutive_penalty,
                             v.slashing_events)

\* calculate_weight, in units of 1e-5; reputation in thousandths
CalculateWeight(v, config) ==
    IF ~v.is_active \/ v.stake < config.min_validator_stake
    THEN 0
    ELSE LET reputation_component == v.reputation * config.reputation_weight
             stake_component == LnMilli(v.stake) * config.stake_weight
             consecutive_penalty ==
                 IF v.consecutive_blocks >= config.max_consecutive_blocks THEN 5 ELSE 10
         IN  SlashingPenalty((reputation_component + stake_component) * consecutive_penalty,
                             v.slashing_events)

--------------------------------------------------------------------------
(* Block headers and their hash *)

\* previous_hash of a first block
ZeroHash == <<>>

\* calculate_block_hash: SHA-256 of the serialized header, as the sequence
\* of the header's fields followed by the hash it points back to: equal
\* exactly for equal headers
CalculateBlockHash(header) ==
    <<header.height, header.producer, header.timestamp>> \o header.previous_hash

Header(height, previous_hash, producer, timestamp) ==
    [height |-> height, previous_hash |-> previous_hash, producer |-> producer,
     timestamp |-> timestamp]

Vote(block_hash, block_height, voter, vote_type) ==
    [block_hash |-> block_hash, block_height |-> block_height, voter |-> voter,
     vote_type |-> vote_type]

--------------------------------------------------------------------------
(* ConsensusEngine: operations, each from the engine before the call to the
   engine after it and the value returned *)

Ok == [ok |-> TRUE, err |-> "none"]

Err(e) == [ok |-> FALSE, err |-> e]

\* ConsensusEngine::new
NewEngine(config) ==
    [config |-> config,
     validators |-> EmptyMap,
     validator_performance |-> EmptyMap,
     current_epoch |-> [number |-> 0, start_block |-> 0,
                        end_block |-> config.epoch_duration, validators |-> <<>>],
     pending_votes |-> EmptyMap,
     block_history |-> <<>>]

\* ValidatorPerformance::default
NewPerformance ==
    [blocks_produced |-> 0, blocks_missed |-> 0, votes_cast |-> 0, votes_missed |-> 0]

\* register_validator without the minimum-stake check
RegisterValidatorAnyStake(e, agent_id, stake, reputation) ==
    [engine |->
        [e EXCEPT !.validators =
                      MapPut(@, agent_id, NewValidator(agent_id, stake, reputation)),
                  !.validator_performance = MapPut(@, agent_id, NewPerformance)],
     result |-> Ok]

RegisterValidator(e, agent_id, stake, reputation) ==
    IF stake < e.config.min_validator_stake
    THEN [engine |-> e, result |-> Err("InsufficientStake")]
    ELSE [engine |->
            [e EXCEPT !.validators =
                          MapPut(@, agent_id, NewValidator(agent_id, stake, reputation)),
                      !.validator_performance = MapPut(@, agent_id, NewPerformance)],
          result |-> Ok]

RemoveValidator(e, agent_id) ==
    IF agent_id \in DOMAIN e.validators
    THEN [engine |-> [e EXCEPT !.validators = MapRemove(@, agent_id),
                               !.validator_performance = MapRemove(@, agent_id)],
          result |-> Ok]
    ELSE [engine |-> e, result |-> Ok]

UpdateValidatorStake(e, agent_id, new_stake) ==
    IF agent_id \in DOMAIN e.validators
    THEN [engine |->
            [e EXCEPT !.validators[agent_id].stake = new_stake,
                      !.validators[agent_id].is_active =
                          (new_stake >= e.config.min_validator_stake)],
          result |-> Ok]
    ELSE [engine |-> e, result |-> Err("ValidatorNotFound")]

\* f64::clamp(0.0, 1.0), reputation in thousandths
Clamp01(reputation) ==
    IF reputation < 0 THEN 0 ELSE IF reputation > 1000 THEN 1000 ELSE reputation

\* update_validator_reputation answering Ok for an unknown validator
UpdateValidatorReputationLenient(e, agent_id, reputation) ==
    IF agent_id \in DOMAIN e.validators
    THEN [engine |-> [e EXCEPT !.validators[agent_id].reputation = Clamp01(reputation)],
          result |-> Ok]
    ELSE [engine |-> e, result |-> Ok]

UpdateValidatorReputation(e, agent_id, reputation) ==
    IF agent_id \in DOMAIN e.validators
    THEN [engine |-> [e EXCEPT !.validators[agent_id].reputation = Clamp01(reputation)],
          result |-> Ok]
    ELSE [engine |-> e, result |-> Err("ValidatorNotFound")]

\* select_validators_for_epoch: the active validators by descending weight,
\* the first validators_per_epoch of them. The sort is stable over the
\* HashMap's iteration order, which is arbitrary: every order that is
\* descending in weight is a possible outcome.
SelectValidatorsForEpoch(e) ==
    LET active == {a \in DOMAIN e.validators : e.validators[a].is_active}
        weight(a) == CalculateWeight(e.validators[a], e.config)
        selected_count == Min(e.config.validators_per_epoch, Cardinality(active))
    IN  {s \in [1..selected_count -> active] :
            /\ \A i, j \in 1..selected_count : i < j =>
                  s[i] # s[j] /\ weight(s[i]) >= weight(s[j])
            /\ \A a \in active \ SeqToSet(s) :
                  \A i \in 1..selected_count : weight(s[i]) >= weight(a)}

\* get_block_producer without the rotation
GetBlockProducerFirst(e, block_height) ==
    IF e.current_epoch.validators = <<>>
    THEN None
    ELSE Some(e.current_epoch.validators[1])

GetBlockProducer(e, block_height) ==
    IF e.current_epoch.validators = <<>>
    THEN None
    ELSE Some(e.current_epoch.validators[
                  (block_height % Len(e.current_epoch.validators)) + 1])

\* validate_block without the comparison of previous_hash
ValidateBlockNoHashCheck(e, header) ==
    IF GetBlockProducer(e, header.height) = None THEN FALSE
    ELSE IF Some(header.producer) # GetBlockProducer(e, header.height) THEN FALSE
    ELSE IF header.timestamp > SystemNow THEN FALSE
    ELSE IF e.block_history = <<>> THEN TRUE
    ELSE header.height = e.block_history[Len(e.block_history)].height + 1

ValidateBlock(e, header) ==
    IF GetBlockProducer(e, header.height) = None THEN FALSE
    ELSE IF Some(header.producer) # GetBlockProducer(e, header.height) THEN FALSE
    ELSE IF header.timestamp > SystemNow THEN FALSE
    ELSE IF e.block_history = <<>> THEN TRUE
    ELSE LET last_block == e.block_history[Len(e.block_history)]
         IN  IF header.height # last_block.height + 1 THEN FALSE
             ELSE IF header.previous_hash # CalculateBlockHash(last_block) THEN FALSE
             ELSE TRUE

\* process_vote starting the list of the block hash afresh
ProcessVoteReplacing(e, vote) ==
    IF vote.voter \notin DOMAIN e.validators
    THEN [engine |-> e, result |-> Err("ValidatorNotFound")]
    ELSE LET e1 == [e EXCEPT !.pending_votes = MapPut(@, vote.block_hash, <<vote>>)]
         IN  [engine |->
                IF vote.voter \in DOMAIN e1.validator_performance
                THEN [e1 EXCEPT !.validator_performance[vote.voter].votes_cast = @ + 1]
                ELSE e1,
              result |-> Ok]

ProcessVote(e, vote) ==
    IF vote.voter \notin DOMAIN e.validators
    THEN [engine |-> e, result |-> Err("ValidatorNotFound")]
    ELSE LET votes == IF vote.block_hash \in DOMAIN e.pending_votes
                      THEN e.pending_votes[vote.block_hash] ELSE <<>>
             e1 == [e EXCEPT !.pending_votes =
                                 MapPut(@, vote.block_hash, Append(votes, vote))]
         IN  [engine |->
                IF vote.voter \in DOMAIN e1.validator_performance
                THEN [e1 EXCEPT !.validator_performance[vote.voter].votes_cast = @ + 1]
                ELSE e1,
              result |-> Ok]

ApproveVotes(votes) ==
    Cardinality({i \in 1..Len(votes) : votes[i].vote_type = "Approve"})

RequiredVotes(e) == (Len(e.current_epoch.validators) * 2) \div 3 + 1

\* check_finalization with a quorum of floor(2n/3) instead of floor(2n/3) + 1
CheckFinalizationOneShort(e, block_hash) ==
    IF block_hash \in DOMAIN e.pending_votes
    THEN ApproveVotes(e.pending_votes[block_hash]) + 1 >= RequiredVotes(e)
    ELSE FALSE

CheckFinalization(e, block_hash) ==
    IF block_hash \in DOMAIN e.pending_votes
    THEN ApproveVotes(e.pending_votes[block_hash]) >= RequiredVotes(e)
    ELSE FALSE

\* start_new_epoch without the reset of consecutive_blocks
StartNewEpochKeepingRuns(e, start_block, selected) ==
    [e EXCEPT !.current_epoch =
                  [number |-> e.current_epoch.number + 1,
                   start_block |-> start_block,
                   end_block |-> start_block + e.config.epoch_duration,
                   validators |-> selected]]

\* start_new_epoch with the outcome `selected` of select_validators_for_epoch
StartNewEpoch(e, start_block, selected) ==
    [e EXCEPT !.current_epoch =
                  [number |-> e.current_epoch.number + 1,
                   start_block |-> start_block,
                   end_block |-> start_block + e.config.epoch_duration,
                   validators |-> selected],
              !.validators =
                  [a \in DOMAIN e.validators |->
                      [e.validators[a] EXCEPT !.consecutive_blocks = 0]]]

\* finalize_block up to the epoch check: the producer's counters and the
\* block history
FinalizeRecord(e, header) ==
    LET e1 == IF header.producer \in DOMAIN e.validators
              THEN [e EXCEPT
                      !.validators[header.producer].blocks_produced = @ + 1,
                      !.validators[header.producer].last_block_time = header.timestamp,
                      !.validators[header.producer].consecutive_blocks =
                          IF e.block_history = <<>> THEN @
                          ELSE IF e.block_history[Len(e.block_history)].producer
                                      = header.producer
                               THEN @ + 1 ELSE 1]
              ELSE e
        e2 == IF header.producer \in DOMAIN e1.validator_performance
              THEN [e1 EXCEPT !.validator_performance[header.producer].blocks_produced
                                  = @ + 1]
              ELSE e1
        pushed == Append(e2.block_history, header)
    IN  [e2 EXCEPT !.block_history =
                       IF Len(pushed) > HistoryRetention THEN Tail(pushed) ELSE pushed]

\* the epoch check comparing with the epoch's first block
NeedsNewEpochFromStart(e, header) == header.height >= e.current_epoch.start_block

\* finalize_block, the epoch check
NeedsNewEpoch(e, header) == header.height >= e.current_epoch.end_block

\* finalize_block dropping every pending vote
FinalizeCleanupAll(e, header) ==
    [e EXCEPT !.pending_votes = EmptyMap]

\* finalize_block past the epoch check: the votes pending for the block
FinalizeCleanup(e, header) ==
    [e EXCEPT !.pending_votes = MapRemove(@, CalculateBlockHash(header))]

\* finalize_block: every engine it can leave (one per outcome of the
\* validator selection when the epoch rotates)
FinalizeBlock(e, header) ==
    LET e1 == FinalizeRecord(e, header)
        rotated == IF NeedsNewEpoch(e1, header)
                   THEN {StartNewEpoch(e1, header.height + 1, s) :
                            s \in SelectValidatorsForEpoch(e1)}
                   ELSE {e1}
    IN  {[engine |-> FinalizeCleanup(e2, header), result |-> Ok] : e2 \in rotated}

\* u64 and f64 arithmetic for `(stake as f64 * 0.9) as u64`: a number is the
\* sequence of its bits, lowest first, without leading zeros

RECURSIVE ToBits(_)
ToBits(n) == IF n = 0 THEN <<>> ELSE <<n % 2>> \o ToBits(n \div 2)

RECURSIVE FromBits(_)
FromBits(b) == IF b = <<>> THEN 0 ELSE b[1] + 2 * FromBits(Tail(b))

\* without leading zeros
Trim(b) ==
    LET ones == {i \in 1..Len(b) : b[i] = 1}
    IN  SubSeq(b, 1, IF ones = {} THEN 0 ELSE CHOOSE i \in ones : \A j \in ones : j <= i)

\* a number as limbs of 13 bits, lowest first
Limb == 2^13

LimbsOf(b) ==
    [k \in 1..((Len(b) + 12) \div 13) |->
        FromBits(SubSeq(b, 13 * (k - 1) + 1, Min(13 * k, Len(b))))]

BitsOf(limbs) ==
    Trim([i \in 1..(13 * Len(limbs)) |->
            (limbs[(i - 1) \div 13 + 1] \div 2^((i - 1) % 13)) % 2])

RECURSIVE CarryLimbs(_, _)
\* limbs below 2^13 again
CarryLimbs(c, carry) ==
    IF c = <<>>
    THEN IF carry = 0 THEN <<>> ELSE <<carry % Limb>> \o CarryLimbs(c, carry \div Limb)
    ELSE <<(c[1] + carry) % Limb>> \o CarryLimbs(Tail(c), (c[1] + carry) \div Limb)

AddBits(a, b) ==
    LET x == LimbsOf(a)
        y == LimbsOf(b)
    IN  BitsOf(CarryLimbs([k \in 1..(IF Len(x) >= Len(y) THEN Len(x) ELSE Len(y)) |->
                              (IF k <= Len(x) THEN x[k] ELSE 0)
                            + (IF k <= Len(y) THEN y[k] ELSE 0)], 0))

RECURSIVE Convolution(_, _, _, _)
\* the sum of x[j] * y[k + 1 - j] over j >= i
Convolution(x, y, k, i) ==
    IF i > Len(x)
    THEN 0
    ELSE (IF k + 1 - i \in 1..Len(y) THEN x[i] * y[k + 1 - i] ELSE 0)
         + Convolution(x, y, k, i + 1)

MulBits(a, b) ==
    LET x == LimbsOf(a)
        y == LimbsOf(b)
    IN  IF a = <<>> \/ b = <<>>
        THEN <<>>
        ELSE BitsOf(CarryLimbs([k \in 1..(Len(x) + Len(y) - 1) |->
                                   Convolution(x, y, k, 1)], 0))

RECURSIVE DivRemLimbs(_, _)
DivRemLimbs(x, d) ==
    IF x = <<>>
    THEN [q |-> <<>>, r |-> 0]
    ELSE LET hi == DivRemLimbs(Tail(x), d)
             cur == hi.r * Limb + x[1]
         IN  [q |-> <<cur \div d>> \o hi.q, r |-> cur % d]

\* quotient and remainder of a division by a small d
DivRem(b, d) ==
    LET dr == DivRemLimbs(LimbsOf(b), d)
    IN  [q |-> BitsOf(dr.q), r |-> dr.r]

\* q + 1
Increment(q) ==
    IF \A i \in 1..Len(q) : q[i] = 1
    THEN [i \in 1..Len(q) |-> 0] \o <<1>>
    ELSE LET z == CHOOSE i \in 1..Len(q) : q[i] = 0 /\ \A j \in 1..(i - 1) : q[j] = 1
         IN  [i \in 1..Len(q) |-> IF i < z THEN 0 ELSE IF i = z THEN 1 ELSE q[i]]

\* significant bits an f64 keeps
F64MantissaBits == 53

\* the f64 nearest to an integer: 53 significant bits, ties to even
RoundToF64(p) ==
    LET d == Len(p) - F64MantissaBits
    IN  IF d <= 0
        THEN p
        ELSE LET q == SubSeq(p, d + 1, Len(p))
                 up == /\ p[d] = 1
                       /\ (q[1] = 1 \/ \E i \in 1..(d - 1) : p[i] = 1)
             IN  [i \in 1..d |-> 0] \o (IF up THEN Increment(q) ELSE q)

\* the f64 literal 0.9 is 0x1CCCCCCCCCCCCD * 2^-53
F64NineTenths ==
    <<1,0,1,1, 0,0,1,1, 0,0,1,1, 0,0,1,1, 0,0,1,1, 0,0,1,1, 0,0,1,1,
      0,0,1,1, 0,0,1,1, 0,0,1,1, 0,0,1,1, 0,0,1,1, 0,0,1,1, 1>>

\* (stake as f64 * 0.9) as u64: the stake rounded to f64, the product
\* rounded to f64, its fraction of 53 bits cut off
SlashedStake(stake_bits) ==
    LET product == RoundToF64(MulBits(RoundToF64(stake_bits), F64NineTenths))
    IN  SubSeq(product, F64MantissaBits + 1, Len(product))

\* slash_validator without the deactivation below the minimum stake
SlashValidatorKeepingActive(e, agent_id) ==
    IF agent_id \in DOMAIN e.validators
    THEN LET stake == FromBits(SlashedStake(ToBits(e.validators[agent_id].stake)))
         IN  [engine |->
                [e EXCEPT !.validators[agent_id].slashing_events = @ + 1,
                          !.validators[agent_id].stake = stake],
              result |-> Ok]
    ELSE [engine |-> e, result |-> Err("ValidatorNotFound")]

SlashValidator(e, agent_id) ==
    IF agent_id \in DOMAIN e.validators
    THEN LET stake == FromBits(SlashedStake(ToBits(e.validators[agent_id].stake)))
         IN  [engine |->
                [e EXCEPT !.validators[agent_id].slashing_events = @ + 1,
                          !.validators[agent_id].stake = stake,
                          !.validators[agent_id].is_active =
                              IF stake < e.config.min_validator_stake THEN FALSE ELSE @],
              result |-> Ok]
    ELSE [engine |-> e, result |-> Err("ValidatorNotFound")]

--------------------------------------------------------------------------
(* The engine's callers: one call at a time (every mutating method takes
   &mut self). Each call is an action; its arguments come from the sets the
   specifications below give. *)

LastBlock(e) == e.block_history[Len(e.block_history)]

\* the hashes a caller may put in a header: none, or the last header's
PreviousHashes(e) ==
    {ZeroHash} \cup
    (IF e.block_history = <<>> THEN {} ELSE {CalculateBlockHash(LastBlock(e))})

\* the block proposed on top of the chain by producer p
ProposedHeader(e, p) ==
    Header(IF e.block_history = <<>> THEN 0 ELSE LastBlock(e).height + 1,
           IF e.block_history = <<>> THEN ZeroHash ELSE CalculateBlockHash(LastBlock(e)),
           p, 0)

RECURSIVE SumOver(_, _)
SumOver(f, S) ==
    IF S = {} THEN 0
    ELSE LET x == CHOOSE y \in S : TRUE IN f[x] + SumOver(f, S \ {x})

PendingVoteCount(e) ==
    SumOver([h \in DOMAIN e.pending_votes |-> Len(e.pending_votes[h])],
            DOMAIN e.pending_votes)

Returned(op, r) == [op |-> op, ok |-> r.ok, err |-> r.err, value |-> TRUE]

Answered(op, v) == [op |-> op, ok |-> TRUE, err |-> "none", value |-> v]

\* nothing was calculated
CalcStart ==
    /\ validator = NewValidator(1, 0, 0)
    /\ returned_weight = None
    /\ wide_stake = <<>>
    /\ wide_slashes = 0

EngineStart(config) ==
    /\ engine = NewEngine(config)
    /\ result = Answered("new", TRUE)

Apply(op, r) ==
    /\ engine' = r.engine
    /\ result' = Returned(op, r.result)
    /\ UNCHANGED <<msgVars, nodeVars, calcVars>>

ERegisterValidator(a, stake, reputation) ==
    Apply("register_validator", RegisterValidator(engine, a, stake, reputation))

ERemoveValidator(a) ==
    Apply("remove_validator", RemoveValidator(engine, a))

EUpdateValidatorStake(a, stake) ==
    Apply("update_validator_stake", UpdateValidatorStake(engine, a, stake))

EUpdateValidatorReputation(a, reputation) ==
    Apply("update_validator_reputation", UpdateValidatorReputation(engine, a, reputation))

EProcessVote(vote, max_votes) ==
    /\ PendingVoteCount(engine) < max_votes
    /\ Apply("process_vote", ProcessVote(engine, vote))

EFinalizeBlock(header, max_blocks) ==
    /\ Len(engine.block_history) < max_blocks
    /\ \E r \in FinalizeBlock(engine, header) : Apply("finalize_block", r)

ESlashValidator(a, max_slashes) ==
    /\ a \in DOMAIN engine.validators =>
          engine.validators[a].slashing_events < max_slashes
    /\ Apply("slash_validator", SlashValidator(engine, a))

EValidateBlock(header) ==
    /\ result' = Answered("validate_block", ValidateBlock(engine, header))
    /\ UNCHANGED <<engine, msgVars, nodeVars, calcVars>>

ECheckFinalization(block_hash) ==
    /\ result' = Answered("check_finalization", CheckFinalization(engine, block_hash))
    /\ UNCHANGED <<engine, msgVars, nodeVars, calcVars>>

--------------------------------------------------------------------------
(* SpecEngine: the chain. Validators come and go, blocks are finalized and
   proposed headers validated, under the short-epoch configuration. *)

MaxBlocks == 2

ChainValidatorIds == {1, 2}

LowStake == 500

ChainStakes == {LowStake, 5000}

ChainReputations == {800}

\* the heights a caller may put in a header: the first, the one after the
\* last header's, and the one that ends the epoch
HeaderHeights(e) ==
    {0, e.current_epoch.end_block} \cup
    (IF e.block_history = <<>> THEN {} ELSE {LastBlock(e).height + 1})

HeaderInputs(e, timestamps) ==
    {Header(h, ph, p, ts) :
        h \in HeaderHeights(e), ph \in PreviousHashes(e), p \in ChainValidatorIds,
        ts \in timestamps}

InitEngine ==
    /\ EngineStart(ShortEpochConfig)
    /\ MsgStart({0})
    /\ NodeStart(DefaultGossipConfig, {"caller"})
    /\ CalcStart

NextEngine ==
    \/ \E a \in ChainValidatorIds, s \in ChainStakes, r \in ChainReputations :
          ERegisterValidator(a, s, r)
    \/ \E a \in ChainValidatorIds : ERemoveValidator(a)
    \/ \E a \in ChainValidatorIds : EUpdateValidatorStake(a, LowStake)
    \/ \E h \in HeaderInputs(engine, {0}) : EFinalizeBlock(h, MaxBlocks)
    \/ \E h \in HeaderInputs(engine, {SystemNow}) : EValidateBlock(h)

SpecEngine == InitEngine /\ [][NextEngine]_vars

\* C3: validate_block accepts a header only if block history is not empty,
\* the header's height is the last header's height + 1 and its previous_hash
\* is the hash computed from the last header; every other header is rejected.
C3_ValidateRejectsOutOfSequence ==
    \A h \in HeaderInputs(engine, Timestamps) :
        ValidateBlock(engine, h) =>
            /\ engine.block_history # <<>>
            /\ h.height = LastBlock(engine).height + 1
            /\ h.previous_hash = CalculateBlockHash(LastBlock(engine))

\* a header with the assigned producer and a past timestamp
ProducerAndTimeOk(e, h) ==
    /\ GetBlockProducer(e, h.height) = Some(h.producer)
    /\ h.timestamp <= SystemNow

\* C3 witness: validate_block has just returned false, and among the headers
\* it rejects there is one with the assigned producer and a past timestamp
\* that has the wrong height, and one that has the right height and the wrong
\* previous_hash; the header built on the last one is accepted.
C3_Witness ==
    /\ result.op = "validate_block" /\ result.value = FALSE
    /\ engine.block_history # <<>>
    /\ \E h \in HeaderInputs(engine, Timestamps) :
          /\ ProducerAndTimeOk(engine, h)
          /\ h.height # LastBlock(engine).height + 1
          /\ ~ValidateBlock(engine, h)
    /\ \E h \in HeaderInputs(engine, Timestamps) :
          /\ ProducerAndTimeOk(engine, h)
          /\ h.height = LastBlock(engine).height + 1
          /\ h.previous_hash # CalculateBlockHash(LastBlock(engine))
          /\ ~ValidateBlock(engine, h)
    /\ \E h \in HeaderInputs(engine, Timestamps) : ValidateBlock(engine, h)

\* C4: consecutive headers of block history have consecutive heights:
\* finalize_block appends height h + 1 only right after height h.
C4_FinalizedInHeightOrder ==
    \A i \in 1..(Len(engine.block_history) - 1) :
        engine.block_history[i + 1].height = engine.block_history[i].height + 1

\* a header that does not extend the last header of block history
OutOfSequence(e, h) ==
    /\ e.block_history # <<>>
    /\ \/ h.height # LastBlock(e).height + 1
       \/ h.previous_hash # CalculateBlockHash(LastBlock(e))

\* C5: finalize_block of a header that regresses in height or has the wrong
\* previous_hash is rejected and leaves the engine as it was.
C5_BadFinalizeRejected ==
    [][\A h \in HeaderInputs(engine, {0}) :
          (EFinalizeBlock(h, MaxBlocks) /\ OutOfSequence(engine, h)) =>
              (engine' = engine /\ ~result'.ok)]_vars

--------------------------------------------------------------------------
(* SpecQuorum: votes on the block proposed on top of the chain, counted
   against epochs of n validators. The engine starts as the default
   configuration leaves it after n validators (1..n, equal stake and
   reputation, hence equal weight) registered and the block that ends epoch
   0 was finalized: epoch 1 holds all n validators. *)

QuorumSizes == {0, 1, 2, 3, 4, 6, 21}

\* up to this many epoch validators votes arrive in any order, from any
\* validator, any number of times per validator; in larger epochs validator
\* k casts vote k: approvals first, then rejections, then abstentions
FreeOrderSize == 2

QuorumStake == 5000

QuorumReputation == 800

RECURSIVE RegisterAll(_, _)
RegisterAll(e, n) ==
    IF n = 0 THEN e
    ELSE RegisterValidator(RegisterAll(e, n - 1), n, QuorumStake, QuorumReputation).engine

EpochEndHeader == Header(DefaultEpochDuration, ZeroHash, 1, 0)

EngineWithEpochOf(n) ==
    IF n = 0 THEN NewEngine(DefaultConfig)
    ELSE LET e1 == FinalizeRecord(RegisterAll(NewEngine(DefaultConfig), n), EpochEndHeader)
         IN  FinalizeCleanup(
                 StartNewEpoch(e1, EpochEndHeader.height + 1, [i \in 1..n |-> i]),
                 EpochEndHeader)

EpochSize(e) == Len(e.current_epoch.validators)

VotesFor(e, block_hash) ==
    IF block_hash \in DOMAIN e.pending_votes THEN e.pending_votes[block_hash] ELSE <<>>

VoteRank(vote_type) ==
    CASE vote_type = "Approve" -> 1 [] vote_type = "Reject" -> 2 [] OTHER -> 3

\* the votes a caller may cast next for block_hash
QuorumVoteAllowed(e, vote) ==
    LET votes == VotesFor(e, vote.block_hash)
    IN  IF EpochSize(e) <= FreeOrderSize
        THEN Len(votes) <= EpochSize(e)
        ELSE \/ /\ vote.voter = Len(votes) + 1
                /\ votes # <<>> =>
                      VoteRank(votes[Len(votes)].vote_type) <= VoteRank(vote.vote_type)
             \/ vote.voter \notin DOMAIN e.validators

InitQuorum ==
    /\ \E n \in QuorumSizes : engine = EngineWithEpochOf(n)
    /\ result = Answered("new", TRUE)
    /\ MsgStart({0})
    /\ NodeStart(DefaultGossipConfig, {"caller"})
    /\ CalcStart

QProcessVote(vote) ==
    /\ QuorumVoteAllowed(engine, vote)
    /\ Apply("process_vote", ProcessVote(engine, vote))

NextQuorum ==
    \/ \E a \in 1..(EpochSize(engine) + 1), t \in VoteTypes :
          LET h == ProposedHeader(engine, 1)
          IN  QProcessVote(Vote(CalculateBlockHash(h), h.height, a, t))
    \/ ECheckFinalization(CalculateBlockHash(ProposedHeader(engine, 1)))
    \/ /\ EpochSize(engine) <= FreeOrderSize
       /\ ERegisterValidator(EpochSize(engine) + 1, QuorumStake, QuorumReputation)

SpecQuorum == InitQuorum /\ [][NextQuorum]_vars

\* the Approve votes stored for block_hash
ApprovalsStored(e, block_hash) ==
    IF block_hash \in DOMAIN e.pending_votes
    THEN Len(SelectSeq(e.pending_votes[block_hash], LAMBDA v : v.vote_type = "Approve"))
    ELSE 0

ProposedHash == CalculateBlockHash(ProposedHeader(engine, 1))

\* C2: check_finalization(H) is true exactly when the Approve votes stored
\* for H number at least floor(2n/3) + 1, n the validators of the current epoch.
C2_FinalizationIffQuorum ==
    CheckFinalization(engine, ProposedHash)
        <=> (ApprovalsStored(engine, ProposedHash) >= (2 * EpochSize(engine)) \div 3 + 1)

\* C2 witness: 21 validators, 15 approvals and 6 other votes, and
\* check_finalization has just returned true.
C2_Witness ==
    /\ EpochSize(engine) = 21
    /\ ApprovalsStored(engine, ProposedHash) = 15
    /\ Len(VotesFor(engine, ProposedHash)) = 21
    /\ result.op = "check_finalization" /\ result.value = TRUE

\* C2, one vote short: 14 approvals of 21 (with 7 other votes) and, where the
\* quorum is n, n - 1 approvals: check_finalization has just returned false.
C2_WitnessOneShort ==
    /\ result.op = "check_finalization" /\ result.value = FALSE
    /\ \/ EpochSize(engine) = 21 /\ ApprovalsStored(engine, ProposedHash) = 14
          /\ Len(VotesFor(engine, ProposedHash)) = 21
       \/ EpochSize(engine) = 3 /\ ApprovalsStored(engine, ProposedHash) = 2
          /\ Len(VotesFor(engine, ProposedHash)) = 3

--------------------------------------------------------------------------
(* SpecMsg *)

InitMsg ==
    /\ MsgStart(0..MaxTTL)
    /\ EngineStart(DefaultConfig)
    /\ NodeStart(DefaultGossipConfig, {"caller"})
    /\ CalcStart

NextMsg == \E n \in ForwardNodes : MsgForward(n)

SpecMsg == InitMsg /\ [][NextMsg]_vars

\* number of forward() calls that returned true
SuccessfulForwards == Cardinality({i \in 1..Len(fwd_results) : fwd_results[i]})

\* C8: hop_count of a message mutated only by forward() never exceeds 10.
C8_HopCountAtMostTen == gm.hop_count <= 10

\* C9: with initial TTL t in 1..10 the first t calls of forward() return true
\* (ttl = t - k, hop_count = k and k path entries after k <= t calls) and call t+1
\* returns false.
C9_FirstTForwardsSucceed ==
    (gm0.ttl \in 1..10) =>
        /\ \A i \in 1..Len(fwd_results) :
              (i <= gm0.ttl => fwd_results[i]) /\ (i = gm0.ttl + 1 => ~fwd_results[i])
        /\ Len(fwd_results) <= gm0.ttl =>
              /\ gm.ttl = gm0.ttl - Len(fwd_results)
              /\ gm.hop_count = Len(fwd_results)
              /\ Len(gm.routing_path) = Len(fwd_results)

\* C10: the routing path is as long as the number of forward() calls that
\* returned true.
C10_PathLenEqualsSuccessfulForwards == Len(gm.routing_path) = SuccessfulForwards

--------------------------------------------------------------------------
(* Spec: one node shared by three tasks. Two of them deliver messages from
   the network, the third is the application; the queue consumer runs
   beside them. *)

Receivers == {"receiver1", "receiver2"}

Application == "application"

RacePeerIds == {"p1", "p2"}

\* the counters stop the calls: deliveries and gossip calls
MaxReceived == 2

MaxSent == 1

RaceConfig == GossipConfig(1, DefaultMessageTtl, DefaultMaxMessageCache)

RaceMessages == {NewMessage(1, "HeartBeat", "origin", ttl) : ttl \in {0, 2}}

Init ==
    /\ NodeStart(RaceConfig, Receivers \cup {Application})
    /\ MsgStart({0})
    /\ EngineStart(DefaultConfig)
    /\ CalcStart

Next ==
    \/ \E t \in Receivers, m \in RaceMessages : HandleIncomingMessage(t, m, MaxReceived)
    \/ \E t \in Receivers : CheckDuplicate(t)
    \/ \E t \in Receivers : DuplicateStats(t)
    \/ \E t \in Receivers : ExpiredStats(t)
    \/ \E t \in Receivers : ProcessMessage(t)
    \/ \E t \in Receivers : UpdateSender(t)
    \/ \E t \in Receivers : CheckShouldForward(t)
    \/ \E t \in Receivers : ForwardMessage(t)
    \/ \E t \in Receivers : ForwardCache(t)
    \/ \E t \in Receivers : ForwardStats(t)
    \/ \E p \in RacePeerIds : AddPeer(Application, p)
    \/ AddPeerStats(Application)
    \/ \E m \in RaceMessages : GossipMessage(Application, m, MaxSent)
    \/ GossipSelect(Application)
    \/ GossipStats(Application)
    \/ ConsumerSend
    \/ ConsumerDone

Spec == Init /\ [][Next]_vars

\* C6: the forward-set of every cache entry has at most fanout members.
C6_FanoutCap ==
    \A id \in DOMAIN node.message_cache :
        Cardinality(node.message_cache[id].forwarded_to) <= node.config.fanout

--------------------------------------------------------------------------
(* SpecSeq: the node with one caller (a call returns before the next one
   starts), at one instant of the clock; the outbound queue keeps what the
   calls put on it. *)

Caller == "caller"

SeqPeerIds == {"p1", "p2"}

SeqMaxReceived == 2

SeqMaxSent == 1

SmallCache == 1

ShortTtl == 2

SeqConfigs ==
    {GossipConfig(1, ShortTtl, max_message_cache) :
        max_message_cache \in {SmallCache, DefaultMaxMessageCache}}

\* a message that other nodes forwarded `hops` times
RECURSIVE Relayed(_, _)
Relayed(m, hops) ==
    IF hops = 0 THEN m ELSE ForwardMutate(Relayed(m, hops - 1), "relay")

\* messages from the network: live with a handler, expired, without a
\* handler and on their last hop, one that carries this node's id, and one
\* that arrives with the hop limit used up and TTL to spare
SeqMessages ==
    {NewMessage(1, "Custom", "p1", 2), NewMessage(1, "Custom", "p1", 0),
     NewMessage(1, "HeartBeat", "p1", 1), NewMessage(1, "Custom", NodeId, 2),
     Relayed(NewMessage(1, "Custom", "p1", MaxHopLimit + 2), MaxHopLimit)}

InitSeq ==
    /\ \E config \in SeqConfigs : NodeStart(config, {Caller})
    /\ MsgStart({0})
    /\ EngineStart(DefaultConfig)
    /\ CalcStart

NextSeq ==
    \/ \E p \in SeqPeerIds : AddPeer(Caller, p)
    \/ AddPeerStats(Caller)
    \/ \E p \in SeqPeerIds : RemovePeer(Caller, p)
    \/ RemovePeerStats(Caller)
    \/ \E message_type \in MessageTypes : Broadcast(Caller, message_type, SeqMaxSent)
    \/ GossipSelect(Caller)
    \/ GossipStats(Caller)
    \/ \E m \in SeqMessages : HandleIncomingMessage(Caller, m, SeqMaxReceived)
    \/ CheckDuplicate(Caller)
    \/ DuplicateStats(Caller)
    \/ ExpiredStats(Caller)
    \/ ProcessMessage(Caller)
    \/ UpdateSender(Caller)
    \/ CheckShouldForward(Caller)
    \/ ForwardMessage(Caller)
    \/ ForwardCache(Caller)
    \/ ForwardStats(Caller)

SpecSeq == InitSeq /\ [][NextSeq]_vars

\* C1: a message of another node that was handled is not given to its
\* handler again before the cache is purged: a second
\* handle_incoming_message of the same message is filtered as a duplicate.
C1_HandlerOncePerMessage ==
    \A i, j \in 1..Len(handled) :
        (i < j /\ handled[i].ok /\ handled[i].message.sender_id # NodeId) =>
            handled[i].message # handled[j].message

--------------------------------------------------------------------------
(* SpecFanout: the default configuration (fanout 3) and up to six peers,
   registered in the order of their names; a peer registered a liveness
   window ago is marked inactive by the maintenance sweep. The application
   broadcasts when the consumer has drained the outbound queue. *)

FanoutPeerIds == <<"p1", "p2", "p3", "p4", "p5", "p6">>

FanoutMaxSent == 1

FanoutMaxTime == 300

InitFanout ==
    /\ NodeStart(DefaultGossipConfig, {Caller})
    /\ MsgStart({0})
    /\ EngineStart(DefaultConfig)
    /\ CalcStart

NextFanout ==
    \/ \E i \in 1..Len(FanoutPeerIds) :
          /\ i = Cardinality(DOMAIN node.peers) + 1
          /\ AddPeer(Caller, FanoutPeerIds[i])
    \/ AddPeerStats(Caller)
    \/ /\ node.outbound = <<>>
       /\ Broadcast(Caller, "HeartBeat", FanoutMaxSent)
    \/ GossipSelect(Caller)
    \/ GossipStats(Caller)
    \/ ConsumerSend
    \/ ConsumerDone
    \/ MaintainPeers
    \/ MaintainCache
    \/ Tick(LivenessWindow, FanoutMaxTime)

SpecFanout == InitFanout /\ [][NextFanout]_vars

ActivePeers(n) == {p \in DOMAIN n.peers : n.peers[p].is_active}

\* what a step added at the back of the outbound queue
Enqueued == SubSeq(node'.outbound, Len(node.outbound) + 1, Len(node'.outbound))

\* C7: the selection step of broadcast / gossip_message queues the message
\* for exactly min(fanout, active peers) pairwise distinct peers, each of
\* them active when selected; an inactive peer is never a target.
C7_BroadcastTargets ==
    [][\A t \in DOMAIN tasks : GossipSelect(t) =>
          /\ Len(node'.outbound) = Len(node.outbound)
                + Min(node.config.fanout, Cardinality(ActivePeers(node)))
          /\ \A i \in 1..Len(Enqueued) :
                /\ Enqueued[i][1] \in ActivePeers(node)
                /\ Enqueued[i][2] = tasks[t].message
          /\ \A i, j \in 1..Len(Enqueued) : i < j => Enqueued[i][1] # Enqueued[j][1]]_vars

\* fanout 3, five active peers and one inactive: the broadcast message was
\* queued for three distinct active peers
C7_Witness ==
    /\ tasks[Caller].pc = "gossip_stats"
    /\ tasks[Caller].message.sender_id = NodeId
    /\ tasks[Caller].message.ttl = node.config.message_ttl
    /\ node.config.fanout = 3
    /\ Cardinality(DOMAIN node.peers) = 6
    /\ Cardinality(ActivePeers(node)) = 5
    /\ Cardinality(SeqToSet(tasks[Caller].targets)) = 3
    /\ SeqToSet(tasks[Caller].targets) \subseteq ActivePeers(node)
    /\ node.outbound = Enqueue(<<>>, tasks[Caller].targets, tasks[Caller].message)

--------------------------------------------------------------------------
(* Forwarding of received messages *)

\* C11: a forward_message call whose forward() says false (the message is
\* on its last TTL unit or at the hop limit) queues nothing and changes
\* neither the cache nor the statistics, and the call is over; every message
\* a forward_message call queues has ttl >= 1 and hop_count <= 10.
C11_NoForwardOfExpired ==
    [][\A t \in DOMAIN tasks : ForwardMessage(t) =>
          /\ (tasks[t].message.ttl <= 1 \/ tasks[t].message.hop_count >= MaxHopLimit) =>
                (node' = node /\ tasks'[t].pc = "idle")
          /\ \A i \in 1..Len(Enqueued) :
                Enqueued[i][2].ttl >= 1 /\ Enqueued[i][2].hop_count <= MaxHopLimit]_vars

\* the last-hop message of p1 was received and processed (p1's record
\* counts it) while p2 was an active peer, and the call is over: nothing was
\* queued or counted as forwarded
C11_Witness ==
    /\ tasks[Caller].pc = "idle"
    /\ node.stats.messages_received = 1
    /\ node.stats.bytes_received = 1
    /\ node.stats.messages_forwarded = 0
    /\ node.stats.messages_sent = 0
    /\ "p1" \in DOMAIN node.peers /\ node.peers["p1"].message_count = 1
    /\ "p2" \in DOMAIN node.peers /\ node.peers["p2"].is_active
    /\ handled = <<>>
    /\ node.outbound = <<>>

--------------------------------------------------------------------------
(* SpecRegistry: the validator registry under the default configuration.
   Validators register with a stake just below, at and above the minimum,
   are removed, slashed, and have stake and reputation updated; validator 2
   may be unknown when a call names it. *)

RegistryIds == {1, 2}

MaxSlashes == 2

\* one below the minimum stake, the minimum, and a stake that two slashes
\* bring below the minimum
RegistryStakes ==
    {DefaultMinValidatorStake - 1, DefaultMinValidatorStake,
     DefaultMinValidatorStake + 200}

\* reputations in thousandths: below 0.0, inside the range and above 1.0
RegistryReputations == {-500, 500, 1500}

InitRegistry ==
    /\ EngineStart(DefaultConfig)
    /\ MsgStart({0})
    /\ NodeStart(DefaultGossipConfig, {"caller"})
    /\ CalcStart

NextRegistry ==
    \/ \E a \in RegistryIds, s \in RegistryStakes : ERegisterValidator(a, s, 500)
    \/ \E a \in RegistryIds : ERemoveValidator(a)
    \/ \E a \in RegistryIds, s \in RegistryStakes : EUpdateValidatorStake(a, s)
    \/ \E a \in RegistryIds, r \in RegistryReputations : EUpdateValidatorReputation(a, r)
    \/ \E a \in RegistryIds : ESlashValidator(a, MaxSlashes)

SpecRegistry == InitRegistry /\ [][NextRegistry]_vars

\* C12: register_validator with a stake below the minimum answers
\* InsufficientStake and leaves the registry and the performance map as they
\* were; otherwise it answers Ok and the validator is registered, active,
\* with that stake.
C12_RegisterChecksStake ==
    [][\A a \in RegistryIds, s \in RegistryStakes :
          ERegisterValidator(a, s, 500) =>
              IF s < engine.config.min_validator_stake
              THEN /\ ~result'.ok /\ result'.err = "InsufficientStake"
                   /\ engine'.validators = engine.validators
                   /\ engine'.validator_performance = engine.validator_performance
              ELSE /\ result'.ok
                   /\ a \in DOMAIN engine'.validators
                   /\ engine'.validators[a].is_active
                   /\ engine'.validators[a].stake = s]_vars

\* a registration was just refused for its stake while a validator
\* registered with exactly the minimum stake is in the registry
C12_Witness ==
    /\ result.op = "register_validator" /\ result.err = "InsufficientStake"
    /\ \E a \in DOMAIN engine.validators :
          /\ engine.validators[a].stake = DefaultMinValidatorStake
          /\ engine.validators[a].is_active
          /\ engine.validators[a].slashing_events = 0

\* C19: update_validator_stake and update_validator_reputation for an id
\* that is not registered answer ValidatorNotFound and leave the engine as
\* it was.
C19_UpdateUnknownFails ==
    [][\A a \in RegistryIds :
          a \notin DOMAIN engine.validators =>
              /\ \A s \in RegistryStakes : EUpdateValidatorStake(a, s) =>
                    (~result'.ok /\ result'.err = "ValidatorNotFound" /\ engine' = engine)
              /\ \A r \in RegistryReputations : EUpdateValidatorReputation(a, r) =>
                    (~result'.ok /\ result'.err = "ValidatorNotFound" /\ engine' = engine)]_vars

\* update_validator_reputation was just refused for an unknown id while
\* another validator is registered
C19_Witness ==
    /\ result.op = "update_validator_reputation" /\ result.err = "ValidatorNotFound"
    /\ DOMAIN engine.validators # {}

--------------------------------------------------------------------------
(* SpecWeight: calculate_weight as a function of the validator, under the
   default configuration.  The validator starts with any of a few stakes
   (below the minimum, the minimum, the stakes of the unit tests, one and
   three millions), reputations, block runs and slashing counts, active or
   not; its reputation is then set and its weight calculated. *)

WeightStakes == {LowStake, DefaultMinValidatorStake, 5000, 10000, 1000000, 3000000}

\* in thousandths
WeightReputations == {-500, 0, 700, 800, 1000}

WeightValidators ==
    {[NewValidator(1, s, r) EXCEPT !.consecutive_blocks = c,
                                   !.slashing_events = n,
                                   !.is_active = a] :
        s \in WeightStakes, r \in WeightReputations,
        c \in {0, DefaultMaxConsecutiveBlocks}, n \in 0..2, a \in BOOLEAN}

InitWeight ==
    /\ validator \in WeightValidators
    /\ returned_weight = None
    /\ wide_stake = <<>>
    /\ wide_slashes = 0
    /\ EngineStart(DefaultConfig)
    /\ MsgStart({0})
    /\ NodeStart(DefaultGossipConfig, {"caller"})

VCalculateWeight ==
    /\ returned_weight' = Some(CalculateWeight(validator, DefaultConfig))
    /\ UNCHANGED <<validator, wide_stake, wide_slashes, msgVars, engineVars, nodeVars>>

\* reputation is a public field
VSetReputation(reputation) ==
    /\ validator' = [validator EXCEPT !.reputation = reputation]
    /\ returned_weight' = None
    /\ UNCHANGED <<wide_stake, wide_slashes, msgVars, engineVars, nodeVars>>

NextWeight ==
    \/ VCalculateWeight
    \/ \E r \in WeightReputations : VSetReputation(r)

SpecWeight == InitWeight /\ [][NextWeight]_vars

\* C13: the weight of the validators of the unit tests, stake 5000 with
\* reputation 0.7 and stake 10000 with reputation 0.8, is strictly positive
\* under the default configuration.
C13_TestedWeightsPositive ==
    (/\ returned_weight # None
     /\ validator \in {NewValidator(1, 5000, 700), NewValidator(1, 10000, 800)})
        => returned_weight[1] > 0

\* C14: with every other field fixed the weight does not decrease when the
\* reputation grows, and the weight calculated for a validator that is
\* inactive or has less than the minimum stake is exactly 0.
C14_WeightMonotoneInReputation ==
    /\ \A r1, r2 \in WeightReputations :
          r1 <= r2 =>
              CalculateWeight([validator EXCEPT !.reputation = r1], DefaultConfig)
                  <= CalculateWeight([validator EXCEPT !.reputation = r2], DefaultConfig)
    /\ (/\ returned_weight # None
        /\ (~validator.is_active \/ validator.stake < DefaultMinValidatorStake))
          => returned_weight = Some(0)

\* the weight of an active validator below the minimum stake was calculated
C14_Witness ==
    /\ returned_weight = Some(0)
    /\ validator.is_active
    /\ validator.stake < DefaultMinValidatorStake
    /\ validator.reputation > 0

--------------------------------------------------------------------------
(* SpecSlash: the stake slash_validator leaves, `(stake as f64 * 0.9) as
   u64`, as a function of the stake.  The stake starts a little above 5000
   or a little above 2 * 10^15 and is slashed repeatedly. *)

MaxWideSlashes == 2

WideStakeBases == {ToBits(5000), MulBits(ToBits(2000000), ToBits(1000000000))}

WideStakes == {AddBits(base, ToBits(k)) : base \in WideStakeBases, k \in 0..49}

InitSlash ==
    /\ wide_stake \in WideStakes
    /\ wide_slashes = 0
    /\ validator = NewValidator(1, 0, 0)
    /\ returned_weight = None
    /\ EngineStart(DefaultConfig)
    /\ MsgStart({0})
    /\ NodeStart(DefaultGossipConfig, {"caller"})

SlashStake ==
    /\ wide_slashes < MaxWideSlashes
    /\ wide_stake' = SlashedStake(wide_stake)
    /\ wide_slashes' = wide_slashes + 1
    /\ UNCHANGED <<validator, returned_weight, msgVars, engineVars, nodeVars>>

NextSlash == SlashStake

SpecSlash == InitSlash /\ [][NextSlash]_vars

\* C17: the stake a slash leaves is floor(0.9 x the stake before).
C17_SlashedStakeIsFloor ==
    [][SlashStake => wide_stake' = DivRem(MulBits(wide_stake, ToBits(9)), 10).q]_vars

--------------------------------------------------------------------------
(* Block producers (SpecEngine) *)

\* C18: get_block_producer(h) is None while the epoch has no validators and
\* otherwise walks the epoch's list in order, starting over after the last;
\* a header validate_block accepts names the producer assigned to its height.
C18_ProducerRoundRobin ==
    LET validators == engine.current_epoch.validators
        n == Len(validators)
    IN  /\ n = 0 => \A h \in 0..3 : GetBlockProducer(engine, h) = None
        /\ \A i \in 1..n, round \in 0..2 :
              GetBlockProducer(engine, round * n + i - 1) = Some(validators[i])
        /\ \A header \in HeaderInputs(engine, Timestamps) :
              ValidateBlock(engine, header) =>
                  GetBlockProducer(engine, header.height) = Some(header.producer)

\* in an epoch of two validators a header was just refused, and there is a
\* header refused only for its producer
C18_Witness ==
    /\ Len(engine.current_epoch.validators) = 2
    /\ result.op = "validate_block" /\ result.value = FALSE
    /\ \E header \in HeaderInputs(engine, Timestamps) :
          /\ ~ValidateBlock(engine, header)
          /\ header.height % 2 = 1
          /\ \E producer \in ChainValidatorIds :
                ValidateBlock(engine, [header EXCEPT !.producer = producer])

--------------------------------------------------------------------------
(* Votes (SpecQuorum) *)

\* C15: process_vote from a voter that is not registered answers
\* ValidatorNotFound and leaves the pending votes and the performance
\* counters as they were; from a registered validator it appends the vote to
\* the votes of its block hash, keeps the votes of the other hashes and adds
\* 1 to the voter's votes_cast.
C15_VoteAppended ==
    [][\A a \in 1..(EpochSize(engine) + 1), t \in VoteTypes :
          LET h == ProposedHeader(engine, 1)
              vote == Vote(CalculateBlockHash(h), h.height, a, t)
          IN  QProcessVote(vote) =>
                IF a \notin DOMAIN engine.validators
                THEN /\ ~result'.ok /\ result'.err = "ValidatorNotFound"
                     /\ engine'.pending_votes = engine.pending_votes
                     /\ engine'.validator_performance = engine.validator_performance
                ELSE /\ result'.ok
                     /\ VotesFor(engine', vote.block_hash)
                            = Append(VotesFor(engine, vote.block_hash), vote)
                     /\ \A k \in DOMAIN engine.pending_votes \ {vote.block_hash} :
                            VotesFor(engine', k) = engine.pending_votes[k]
                     /\ engine'.validator_performance[a].votes_cast
                            = engine.validator_performance[a].votes_cast + 1]_vars

\* a vote was just refused for its voter, after a validator voted twice for
\* the proposed block
C15_Witness ==
    /\ result.op = "process_vote" /\ result.err = "ValidatorNotFound"
    /\ Len(VotesFor(engine, CalculateBlockHash(ProposedHeader(engine, 1)))) = 2
    /\ \E a \in DOMAIN engine.validator_performance :
          engine.validator_performance[a].votes_cast = 2

--------------------------------------------------------------------------
(* SpecVotes: votes and finalization.  Two registered validators approve
   the two blocks proposed on top of the chain (one per producer) and one of
   the two is finalized, under the short-epoch configuration. *)

VoteValidatorIds == {1, 2}

MaxPendingVotes == 2

MaxVoteBlocks == 2

VoteHeaders(e) == {ProposedHeader(e, p) : p \in VoteValidatorIds}

InitVotes ==
    /\ engine = RegisterAll(NewEngine(ShortEpochConfig), Cardinality(VoteValidatorIds))
    /\ result = Answered("new", TRUE)
    /\ MsgStart({0})
    /\ NodeStart(DefaultGossipConfig, {"caller"})
    /\ CalcStart

NextVotes ==
    \/ \E h \in VoteHeaders(engine), a \in VoteValidatorIds :
          EProcessVote(Vote(CalculateBlockHash(h), h.height, a, "Approve"), MaxPendingVotes)
    \/ \E h \in VoteHeaders(engine) : EFinalizeBlock(h, MaxVoteBlocks)
    \/ \E h \in VoteHeaders(engine) : ECheckFinalization(CalculateBlockHash(h))

SpecVotes == InitVotes /\ [][NextVotes]_vars

\* C16: when finalize_block(header) has returned no vote is pending for the
\* header's hash, check_finalization is false for it, and the votes pending
\* for every other hash are as they were.
C16_FinalizePurgesVotes ==
    [][\A h \in VoteHeaders(engine) :
          EFinalizeBlock(h, MaxVoteBlocks) =>
              /\ CalculateBlockHash(h) \notin DOMAIN engine'.pending_votes
              /\ ~CheckFinalization(engine', CalculateBlockHash(h))
              /\ \A k \in DOMAIN engine.pending_votes \ {CalculateBlockHash(h)} :
                    /\ k \in DOMAIN engine'.pending_votes
                    /\ engine'.pending_votes[k] = engine.pending_votes[k]]_vars

\* the first block was just finalized: votes cast for it are gone, votes for
\* the block of the other producer are still pending
C16_Witness ==
    /\ result.op = "finalize_block"
    /\ Len(engine.block_history) = 1
    /\ CalculateBlockHash(LastBlock(engine)) \notin DOMAIN engine.pending_votes
    /\ PendingVoteCount(engine) >= 1
    /\ SumOver([a \in DOMAIN engine.validator_performance |->
                   engine.validator_performance[a].votes_cast],
               DOMAIN engine.validator_performance) > PendingVoteCount(engine)

--------------------------------------------------------------------------
(* Guards and suspension points (Spec) *)

\* C20: while the consumer is in its send delay it holds no guard on the
\* statistics, so a receiver that is ready to start handle_incoming_message
\* can take its first step.
C20_IngestionNotBlockedBySend ==
    consumer = "sending" =>
        \A t \in Receivers, m \in RaceMessages :
            (At(t, "idle") /\ node.stats.messages_received < MaxReceived)
                => ENABLED HandleIncomingMessage(t, m, MaxReceived)

--------------------------------------------------------------------------
(* The validator selection as a function of the registry (SpecEngine) *)

\* C21: select_validators_for_epoch has one outcome for a registry: engines
\* with the same validators select the same ordered list.
C21_SelectionDeterministic ==
    Cardinality(SelectValidatorsForEpoch(engine)) = 1

--------------------------------------------------------------------------
(* The active_peers statistic (SpecFanout) *)

\* C22: whenever no call and no sweep is under way, the statistic
\* active_peers equals get_peer_count().
C22_ActivePeersStatIsPeerCount ==
    (tasks[Caller].pc = "idle" /\ maintenance.pc = "idle")
        => node.stats.active_peers = GetPeerCount(node)

--------------------------------------------------------------------------
(* SpecEpoch: epochs of one validator.  Two validators register with one of
   two stakes, may lose their stake, and produce the blocks of a chain of
   consecutive heights that starts at height 0; the epoch rotates on the way. *)

EpochValidatorIds == {1, 2}

EpochStakes == {5000, 10000}

OneValidatorPerEpoch == 1

MaxEpochBlocks == 3

OneValidatorConfig ==
    [DefaultConfig EXCEPT !.validators_per_epoch = OneValidatorPerEpoch,
                          !.epoch_duration = ShortEpochDuration]

EpochHeaders(e) == {ProposedHeader(e, p) : p \in EpochValidatorIds}

InitEpoch ==
    /\ EngineStart(OneValidatorConfig)
    /\ MsgStart({0})
    /\ NodeStart(DefaultGossipConfig, {"caller"})
    /\ CalcStart

NextEpoch ==
    \/ \E a \in EpochValidatorIds, s \in EpochStakes :
          ERegisterValidator(a, s, QuorumReputation)
    \/ \E a \in EpochValidatorIds : EUpdateValidatorStake(a, LowStake)
    \/ \E h \in EpochHeaders(engine) : EFinalizeBlock(h, MaxEpochBlocks)

SpecEpoch == InitEpoch /\ [][NextEpoch]_vars

C25_EpochServesDurationBlocks ==
    engine.current_epoch.number = 1 =>
        Cardinality({i \in 1..Len(engine.block_history) :
                        engine.block_history[i].height < engine.current_epoch.start_block})
            = engine.config.epoch_duration

\* C26: a finalize_block that does not rotate the epoch leaves the
\* producer's consecutive_blocks one higher when the last header of block
\* history has the same producer and 1 otherwise, an empty block history
\* included, and its blocks_produced one higher.
C26_ConsecutiveBlocksCounted ==
    [][\A h \in EpochHeaders(engine) :
          (/\ EFinalizeBlock(h, MaxEpochBlocks)
           /\ ~NeedsNewEpoch(engine, h)
           /\ h.producer \in DOMAIN engine.validators) =>
              /\ engine'.validators[h.producer].blocks_produced
                    = engine.validators[h.producer].blocks_produced + 1
              /\ engine'.validators[h.producer].consecutive_blocks
                    = IF /\ engine.block_history # <<>>
                         /\ LastBlock(engine).producer = h.producer
                      THEN engine.validators[h.producer].consecutive_blocks + 1
                      ELSE 1]_vars

--------------------------------------------------------------------------
(* SpecPeers: the peer table under concurrent use.  One task delivers the
   messages of peer p1, the application registers and removes peers, the
   maintenance task sweeps, and the clock may pass the liveness window. *)

Receiver == "receiver1"

PeersPeerIds == {"p1", "p2"}

PeersMaxReceived == 2

PeersMaxTime == 300

\* a live and an expired message of p1; the node sends nothing of its own,
\* so its cache stays empty and no delivery is a duplicate
PeersMessages == {NewMessage(1, "HeartBeat", "p1", ttl) : ttl \in {0, 2}}

InitPeers ==
    /\ NodeStart(RaceConfig, {Receiver, Application})
    /\ MsgStart({0})
    /\ EngineStart(DefaultConfig)
    /\ CalcStart

NextPeers ==
    \/ \E m \in PeersMessages : HandleIncomingMessage(Receiver, m, PeersMaxReceived)
    \/ CheckDuplicate(Receiver)
    \/ ExpiredStats(Receiver)
    \/ ProcessMessage(Receiver)
    \/ UpdateSender(Receiver)
    \/ CheckShouldForward(Receiver)
    \/ ForwardMessage(Receiver)
    \/ ForwardCache(Receiver)
    \/ ForwardStats(Receiver)
    \/ \E p \in PeersPeerIds : AddPeer(Application, p)
    \/ AddPeerStats(Application)
    \/ \E p \in PeersPeerIds : RemovePeer(Application, p)
    \/ RemovePeerStats(Application)
    \/ MaintainPeers
    \/ MaintainCache
    \/ Tick(LivenessWindow, PeersMaxTime)

SpecPeers == InitPeers /\ [][NextPeers]_vars

\* C23: update_peer_info of a sender, whenever it runs among the add_peer
\* and remove_peer calls of another task, leaves the set of peers as it is:
\* a sender that is registered has message_count one higher, a sender that
\* was removed stays absent, and the other peers are untouched; remove_peer
\* takes out its peer and nothing else.
C23_PeerUpdateAtomic ==
    [][/\ \A t \in DOMAIN tasks : UpdateSender(t) =>
             LET sender == tasks[t].message.sender_id
             IN  /\ DOMAIN node'.peers = DOMAIN node.peers
                 /\ sender \in DOMAIN node.peers =>
                       node'.peers[sender].message_count
                           = node.peers[sender].message_count + 1
                 /\ \A q \in DOMAIN node.peers \ {sender} :
                       node'.peers[q] = node.peers[q]
       /\ \A t \in DOMAIN tasks, p \in PeersPeerIds : RemovePeer(t, p) =>
             /\ DOMAIN node'.peers = DOMAIN node.peers \ {p}
             /\ \A q \in DOMAIN node'.peers : node'.peers[q] = node.peers[q]]_vars

\* the second message of p1 went through update_peer_info after the
\* application had removed p1: p1 is absent, p2 is as it was registered
C23_Witness ==
    /\ tasks[Receiver].pc = "should_forward"
    /\ tasks[Receiver].message.sender_id = "p1"
    /\ node.stats.messages_received = 2
    /\ tasks[Application] = [IdleTask EXCEPT !.ret = "ok"]
    /\ DOMAIN node.peers = {"p2"}
    /\ node.peers["p2"].message_count = 0
    /\ node.stats.active_peers = 1

\* C30: the maintenance sweep keeps every peer and sets is_active to false
\* for the peers whose last_seen is a liveness window or more in the past
\* and to true for the others, the other fields as they were; a peer leaves
\* the table only in a remove_peer step for it.
C30_SweepMarksNeverRemoves ==
    [][/\ MaintainPeers =>
             /\ DOMAIN node'.peers = DOMAIN node.peers
             /\ \A p \in DOMAIN node.peers :
                   /\ node'.peers[p].is_active
                         = ~(now - node.peers[p].last_seen >= LivenessWindow)
                   /\ node'.peers[p].last_seen = node.peers[p].last_seen
                   /\ node'.peers[p].message_count = node.peers[p].message_count
       /\ \A p \in DOMAIN node.peers \ DOMAIN node'.peers :
             \E t \in DOMAIN tasks : RemovePeer(t, p)]_vars

\* the sweep just ran a liveness window after p1 was registered and at the
\* time p2 was: p1 is kept and inactive, p2 is active
C30_Witness ==
    /\ maintenance.pc = "cache"
    /\ now = LivenessWindow
    /\ DOMAIN node.peers = {"p1", "p2"}
    /\ node.peers["p1"].last_seen = 0 /\ ~node.peers["p1"].is_active
    /\ node.peers["p2"].last_seen = LivenessWindow /\ node.peers["p2"].is_active

--------------------------------------------------------------------------
(* SpecForward: what a delivery does to a node with fanout 1 and up to five
   peers, one of them registered under the node's own id.  The peers are
   registered in the order of ForwardPeerIds, those registered a liveness
   window ago are marked inactive by the sweep.  One caller; the node sends
   nothing of its own, so its cache stays empty. *)

ForwardPeerIds == <<"p1", "p2", "p3", "p4", NodeId>>

ForwardMaxReceived == 2

ForwardMaxTime == 300

\* from p1: a live message, one that p2 relayed, one with TTL 0, and one
\* with TTL to spare that arrives after eleven hops
ForwardMessages ==
    {NewMessage(1, "HeartBeat", "p1", 3),
     ForwardMutate(NewMessage(2, "HeartBeat", "p1", 3), "p2"),
     NewMessage(3, "Custom", "p1", 0),
     Relayed(NewMessage(4, "Custom", "p1", MaxHopLimit + 3), MaxHopLimit + 1)}

InitForward ==
    /\ NodeStart(RaceConfig, {Caller})
    /\ MsgStart({0})
    /\ EngineStart(DefaultConfig)
    /\ CalcStart

NextForward ==
    \/ \E i \in 1..Len(ForwardPeerIds) :
          /\ i = Cardinality(DOMAIN node.peers) + 1
          /\ AddPeer(Caller, ForwardPeerIds[i])
    \/ AddPeerStats(Caller)
    \/ \E m \in ForwardMessages : HandleIncomingMessage(Caller, m, ForwardMaxReceived)
    \/ CheckDuplicate(Caller)
    \/ ExpiredStats(Caller)
    \/ ProcessMessage(Caller)
    \/ UpdateSender(Caller)
    \/ CheckShouldForward(Caller)
    \/ ForwardMessage(Caller)
    \/ ForwardCache(Caller)
    \/ ForwardStats(Caller)
    \/ MaintainPeers
    \/ MaintainCache
    \/ Tick(LivenessWindow, ForwardMaxTime)

SpecForward == InitForward /\ [][NextForward]_vars

ExpiredCallEffects(received) ==
    \A m \in ForwardMessages : (IsExpired(m) /\ ~IsDuplicate(node, m)) =>
        /\ HandleIncomingMessage(Caller, m, ForwardMaxReceived) =>
              /\ \E bytes_received \in received :
                    node' = [node EXCEPT
                                !.stats.messages_received = @ + 1,
                                !.stats.bytes_received = @ + bytes_received]
              /\ handled' = handled
        /\ (/\ tasks[Caller].message = m /\ tasks[Caller].pc = "is_duplicate"
            /\ tasks' # tasks) =>
              /\ node' = node /\ handled' = handled
              /\ tasks'[Caller].pc = "expired_stats"
        /\ (/\ tasks[Caller].message = m /\ tasks[Caller].pc = "expired_stats"
            /\ tasks' # tasks) =>
              /\ node' = [node EXCEPT !.stats.expired_messages = @ + 1]
              /\ handled' = handled
              /\ tasks'[Caller] = [IdleTask EXCEPT !.ret = "ok"]

\* C29, as stated: handle_incoming_message on an expired message (ttl = 0 or
\* hop_count > 10) whose id is not in the cache adds one to
\* messages_received and to expired_messages and changes nothing else.
C29_ExpiredOnlyCounted == [][ExpiredCallEffects({0})]_vars

\* C29, amended: it adds one to messages_received and to expired_messages
\* and the size of the message to bytes_received, and changes nothing else:
\* no handler call, no change of a peer, of the queue or of the cache.
C29_ExpiredCountedWithBytes ==
    [][ExpiredCallEffects({MessageBytes(m) : m \in ForwardMessages})]_vars

\* both expired messages were delivered to a node that knows their sender:
\* two received, two expired, the peers as registered, nothing queued or
\* handled
C29_Witness ==
    /\ tasks[Caller] = [IdleTask EXCEPT !.ret = "ok"]
    /\ node.stats.messages_received = 2
    /\ node.stats.expired_messages = 2
    /\ node.stats.bytes_received
          = 2 + Len(Relayed(NewMessage(4, "Custom", "p1", MaxHopLimit + 3),
                            MaxHopLimit + 1).routing_path)
    /\ "p1" \in DOMAIN node.peers
    /\ node.peers["p1"] = NewPeer(0)
    /\ node.outbound = <<>> /\ handled = <<>>

--------------------------------------------------------------------------
(* Deliveries of the node's own messages (SpecSeq) *)

\* the positions of a task inside handle_incoming_message
HandlingPcs ==
    {"is_duplicate", "duplicate_stats", "expired_stats", "process_message",
     "update_peer_info", "should_forward", "forward_message", "forward_cache",
     "forward_stats"}

\* C28: no step of handle_incoming_message on a message whose sender_id is
\* this node's id puts anything on the outbound queue or enters
\* forward_message.
C28_OwnMessageNotForwarded ==
    [][\A t \in DOMAIN tasks :
          (/\ tasks[t].pc \in HandlingPcs
           /\ tasks[t].message.sender_id = NodeId) =>
              /\ node'.outbound = node.outbound
              /\ tasks'[t].pc \notin {"forward_message", "forward_cache",
                                      "forward_stats"}]_vars

\* a live message carrying this node's id was handled (it was not in the
\* cache) and the call returned, with p1 and p2 active: nothing is queued
C28_Witness ==
    /\ tasks[Caller] = [IdleTask EXCEPT !.ret = "ok"]
    /\ node.stats.messages_received = 1
    /\ Len(handled) = 1
    /\ handled[1].ok
    /\ handled[1].message.sender_id = NodeId
    /\ ~IsExpired(handled[1].message)
    /\ ActivePeers(node) = SeqPeerIds
    /\ node.stats.duplicates_filtered = 0
    /\ node.outbound = <<>>
    /\ node.stats.messages_forwarded = 0

--------------------------------------------------------------------------
(* First contact (SpecPeers) *)

\* C31: when handle_incoming_message has processed a message that is
\* neither a duplicate nor expired, the peer table has a record of its
\* sender: the update_peer_info step leaves the sender registered.
C31_PeerCreatedOnFirstContact ==
    [][\A t \in DOMAIN tasks : UpdateSender(t) =>
          tasks[t].message.sender_id \in DOMAIN node'.peers]_vars

--------------------------------------------------------------------------
(* SpecReputation: validators registered with, and updated to, reputations
   below, inside and above the range 0.0 to 1.0 *)

NextReputation ==
    \/ \E a \in RegistryIds, s \in RegistryStakes, r \in RegistryReputations :
          ERegisterValidator(a, s, r)
    \/ \E a \in RegistryIds, r \in RegistryReputations :
          EUpdateValidatorReputation(a, r)

SpecReputation == InitRegistry /\ [][NextReputation]_vars

\* C32: the reputation of every registered validator lies between 0.0 and
\* 1.0 (in thousandths: 0 and 1000).
C32_ReputationInRange ==
    \A a \in DOMAIN engine.validators :
        /\ engine.validators[a].reputation >= 0
        /\ engine.validators[a].reputation <= 1000

--------------------------------------------------------------------------
(* Who reached the quorum (SpecQuorum) *)

\* the validators of the current epoch with an Approve vote stored for block_hash
EpochApprovers(e, block_hash) ==
    {a \in SeqToSet(e.current_epoch.validators) :
        \E i \in 1..Len(VotesFor(e, block_hash)) :
            /\ VotesFor(e, block_hash)[i].voter = a
            /\ VotesFor(e, block_hash)[i].vote_type = "Approve"}

\* C33: check_finalization(H) is true only if at least floor(2n/3) + 1
\* distinct validators of the current epoch's list have an Approve vote for H.
C33_QuorumOfDistinctEpochValidators ==
    CheckFinalization(engine, ProposedHash) =>
        Cardinality(EpochApprovers(engine, ProposedHash)) >= RequiredVotes(engine)

--------------------------------------------------------------------------
(* Agreement (SpecVotes) *)

\* C34: when every validator has cast at most one Approve vote per height,
\* no two different block hashes of one height both satisfy
\* check_finalization.
C34_Agreement ==
    LET approvals ==
            {<<h, i>> \in (DOMAIN engine.pending_votes) \X (1..MaxPendingVotes) :
                /\ i <= Len(engine.pending_votes[h])
                /\ engine.pending_votes[h][i].vote_type = "Approve"}
        vote(x) == engine.pending_votes[x[1]][x[2]]
    IN  (\A x, y \in approvals :
            (vote(x).voter = vote(y).voter
                /\ vote(x).block_height = vote(y).block_height) => x = y)
        => \A x, y \in approvals :
              (/\ vote(x).block_height = vote(y).block_height
               /\ CheckFinalization(engine, x[1])
               /\ CheckFinalization(engine, y[1])) => x[1] = y[1]

--------------------------------------------------------------------------
(* Slashing counts and activity (SpecRegistry) *)

\* C35: the slashing_events of a validator that stays registered never
\* decreases, whatever call is made.
C35_SlashingEventsNeverDecrease ==
    [][\A a \in DOMAIN engine.validators \cap DOMAIN engine'.validators :
          engine'.validators[a].slashing_events
              >= engine.validators[a].slashing_events]_vars

--------------------------------------------------------------------------
(* SpecActive: stake and activity.  Validators register with stakes around
   the minimum and have their stake set and slashed, while validator 1
   produces the blocks of a chain whose epoch rotates. *)

NextActive ==
    \/ \E a \in EpochValidatorIds, s \in RegistryStakes :
          ERegisterValidator(a, s, QuorumReputation)
    \/ \E a \in EpochValidatorIds, s \in RegistryStakes : EUpdateValidatorStake(a, s)
    \/ \E a \in EpochValidatorIds : ESlashValidator(a, MaxSlashes)
    \/ EFinalizeBlock(ProposedHeader(engine, 1), MaxEpochBlocks)

SpecActive == InitEpoch /\ [][NextActive]_vars

\* C36: every registered validator is active exactly when its stake is at
\* least min_validator_stake.
C36_ActiveIffStaked ==
    \A a \in DOMAIN engine.validators :
        engine.validators[a].is_active
            <=> (engine.validators[a].stake >= engine.config.min_validator_stake)

\* after the rotation of the epoch one validator was slashed below the
\* minimum stake and is inactive, the other was slashed and keeps a stake
\* above the minimum and is active
C36_Witness ==
    /\ engine.current_epoch.number = 1
    /\ DOMAIN engine.validators = EpochValidatorIds
    /\ \E a, b \in EpochValidatorIds :
          /\ engine.validators[a].slashing_events > 0
          /\ engine.validators[a].stake < engine.config.min_validator_stake
          /\ ~engine.validators[a].is_active
          /\ engine.validators[b].slashing_events > 0
          /\ engine.validators[b].stake >= engine.config.min_validator_stake
          /\ engine.validators[b].is_active

--------------------------------------------------------------------------
(* The validator list of epoch 0 (SpecEpoch) *)

\* C37: in epoch 0 the epoch's validator list is empty, get_block_producer
\* answers None for every height and validate_block rejects every header,
\* whoever is registered; an empty list becomes non-empty only in a
\* finalize_block step for a height >= epoch_duration (the rotation).
C37_NoValidatorsBeforeFirstRotation ==
    /\ [](engine.current_epoch.number = 0 =>
            /\ engine.current_epoch.validators = <<>>
            /\ \A h \in HeaderInputs(engine, Timestamps) :
                  /\ GetBlockProducer(engine, h.height) = None
                  /\ ~ValidateBlock(engine, h))
    /\ [][(/\ engine.current_epoch.validators = <<>>
           /\ engine'.current_epoch.validators # <<>>) =>
              \E h \in EpochHeaders(engine) :
                  /\ EFinalizeBlock(h, MaxEpochBlocks)
                  /\ h.height >= engine.config.epoch_duration
                  /\ engine'.current_epoch.number = engine.current_epoch.number + 1]_vars

\* two validators are registered and active and two blocks are finalized,
\* still in epoch 0: no producer is assigned to the next height
C37_Witness ==
    /\ engine.current_epoch.number = 0
    /\ Len(engine.block_history) = engine.config.epoch_duration
    /\ DOMAIN engine.validators = EpochValidatorIds
    /\ \A a \in EpochValidatorIds : engine.validators[a].is_active
    /\ GetBlockProducer(engine, LastBlock(engine).height + 1) = None

\* C38: the producer get_block_producer assigns to a height is a registered
\* and active validator.
C38_ProducerRegisteredAndActive ==
    \A h \in HeaderHeights(engine) :
        GetBlockProducer(engine, h) # None =>
            /\ GetBlockProducer(engine, h)[1] \in DOMAIN engine.validators
            /\ engine.validators[GetBlockProducer(engine, h)[1]].is_active

--------------------------------------------------------------------------
(* SpecCache: the node's own broadcasts and their echoes.  One caller
   broadcasts, with a cache of capacity 1 or of the default capacity, and
   gets back what it has broadcast. *)

CacheMaxSent == 2

CacheMaxReceived == 2

\* the messages broadcast so far, as they come back from a peer
Echoes ==
    {NewMessage(id, "HeartBeat", NodeId, node.config.message_ttl) :
        id \in 1..(next_uuid - 1)}

NextCache ==
    \/ \E p \in SeqPeerIds : AddPeer(Caller, p)
    \/ AddPeerStats(Caller)
    \/ Broadcast(Caller, "HeartBeat", CacheMaxSent)
    \/ GossipSelect(Caller)
    \/ GossipStats(Caller)
    \/ \E m \in Echoes : HandleIncomingMessage(Caller, m, CacheMaxReceived)
    \/ CheckDuplicate(Caller)
    \/ DuplicateStats(Caller)
    \/ ProcessMessage(Caller)
    \/ UpdateSender(Caller)
    \/ CheckShouldForward(Caller)

SpecCache == InitSeq /\ [][NextCache]_vars

\* C40: when broadcast / gossip_message of a message returns, the message's
\* id is in the cache and the cache holds at most max_message_cache entries.
C40_InsertedMessageStaysCached ==
    [][\A t \in DOMAIN tasks : GossipStats(t) =>
          /\ tasks[t].message.id \in DOMAIN node'.message_cache
          /\ Cardinality(DOMAIN node'.message_cache)
                <= node.config.max_message_cache]_vars

--------------------------------------------------------------------------
(* SpecLocks: every kind of caller at once.  One task delivers a message
   of p1, the application registers and removes p1 and broadcasts, the
   consumer drains the queue and the maintenance task sweeps.  The locks are
   tokio RwLocks, which grant requests in the order they were made: a step
   that waits for a lock is taken once the lock has been free often enough
   (strong fairness); the consumer's send delay ends (weak fairness). *)

LocksTasks == {Receiver, Application}

LocksMaxReceived == 1

LocksMaxSent == 1

LocksMessages == {NewMessage(1, "HeartBeat", "p1", 2)}

\* the steps of a call under way
CallStep(t) ==
    \/ CheckDuplicate(t)
    \/ DuplicateStats(t)
    \/ ProcessMessage(t)
    \/ UpdateSender(t)
    \/ CheckShouldForward(t)
    \/ ForwardMessage(t)
    \/ ForwardCache(t)
    \/ ForwardStats(t)
    \/ AddPeerStats(t)
    \/ RemovePeerStats(t)
    \/ GossipSelect(t)
    \/ GossipStats(t)

NextLocks ==
    \/ \E m \in LocksMessages : HandleIncomingMessage(Receiver, m, LocksMaxReceived)
    \/ AddPeer(Application, "p1")
    \/ RemovePeer(Application, "p1")
    \/ Broadcast(Application, "HeartBeat", LocksMaxSent)
    \/ \E t \in LocksTasks : CallStep(t)
    \/ ConsumerSend
    \/ ConsumerDone
    \/ MaintainPeers
    \/ MaintainCache

SpecLocks ==
    /\ InitPeers
    /\ [][NextLocks]_vars
    /\ \A t \in LocksTasks : SF_vars(CallStep(t))
    /\ WF_vars(ConsumerDone)
    /\ SF_vars(MaintainCache)

\* C39: no call, and neither background task, waits for a lock forever:
\* every call under way returns, the consumer releases the stats guard,
\* and the sweep gets from the peers to the cache and through it.
C39_EveryLockGranted ==
    /\ \A t \in LocksTasks : (tasks[t].pc # "idle") ~> (tasks[t].pc = "idle")
    /\ (consumer = "sending") ~> (consumer = "idle")
    /\ (maintenance.pc = "cache") ~> (maintenance.pc = "idle")

\* add_peer holds the peers guard and waits for stats, which the consumer
\* holds during its send delay; the delivery waits for the peers guard
C39_Witness ==
    /\ tasks[Application].pc = "add_peer_stats"
    /\ consumer = "sending"
    /\ tasks[Receiver].pc = "update_peer_info"
    /\ maintenance.pc = "cache"

====
